---- MODULE Spec2Model ----
(***************************************************************************)
(* A model of git_annex_adapter/process.py: the line queues with their     *)
(* worker threads (LineReaderQueue, LineWriterQueue), Process, and the     *)
(* restarting GitAnnexBatchProcess, with the child process as environment. *)
(***************************************************************************)
EXTENDS Integers, Sequences, FiniteSets, TLC

\* Bounds of the model: the Process objects constructed in one behaviour, the
\* calls started in one behaviour, the items left in the outbound queue of a
\* dead process (SpecRestart), the children that exit under two unsynchronised
\* callers (SpecConc), the writeline calls started in one behaviour
\* (SpecWrite), the characters a child prints on stderr and the length of a
\* line a caller writes (SpecLines).
MaxProcs == 2
MaxQueries == 2
MaxLeft == 3
MaxKills == 1
MaxCalls == 3
MaxChars == 2
MaxLineLen == 1
\* The largest count given to readlines.
MaxCount == 1
\* The most lines a child prints of itself.
MaxOut == 2
\* The most one-shot commands run.
MaxRuns == 1
\* The most calls on the metadata of a file.
MaxOps == 3

Procs == 1..MaxProcs
Streams == {"stdout", "stderr"}

\* Lines.  None is Python's None: the close sentinel of an outbound queue and
\* the exhaustion sentinel of an inbound queue.
None == [k |-> "None", id |-> 0]
Req(i) == [k |-> "req", id |-> i]
\* The answer a batch child prints for a request line.
Resp(line) == [k |-> "resp", id |-> line.id]
\* The stderr line of a child started outside a repository.
NotRepoLine == [k |-> "notrepo", id |-> 0]

\* The newline character.
NL == "\n"

\* A str, s its characters: a line of text as an item of a queue.
Text(s) == [k |-> "text", txt |-> s]

VARIABLES
    child,      \* child[p]: "none" (not spawned), "alive", "exit0", "exitErr"
    inpipe,     \* inpipe[p]: lines written to the child's stdin, not yet read by it
    rpipe,      \* rpipe[p][s]: lines the child printed on stream s, not yet read
    qin,        \* qin[p]: the LineWriterQueue of p (Process._queues.stdin)
    rqueue,     \* rqueue[p][s]: the LineReaderQueue of stream s of p
    wthread,    \* wthread[p]: the writer worker: "idle", "hold", "dead"
    whold,      \* whold[p]: the item the writer worker dequeued and has not written
    rthread,    \* rthread[p][s]: the reader worker: "run", "closing", "dead"
    cur,        \* GitAnnexBatchProcess._process (0: None)
    dead,       \* GitAnnexBatchProcess._dead_process (0: None)
    nprocs,     \* Process objects constructed so far
    th,         \* th[t]: the position and locals of calling thread t
    hist,       \* the calls that have completed, in completion order
    putlog,     \* putlog[p]: every item enqueued on qin[p], in order
    written,    \* written[p]: every line printed to the stdin of p's child
    emitted,    \* emitted[p][s]: every character the child printed on s (SpecLines)
    nq          \* calls started so far

vars == <<child, inpipe, rpipe, qin, rqueue, wthread, whold, rthread,
          cur, dead, nprocs, th, hist, putlog, written, emitted, nq>>

procvars == <<child, inpipe, rpipe, qin, rqueue, wthread, whold, rthread,
              putlog, written, emitted>>
batchvars == <<cur, dead, nprocs>>
callvars == <<th, hist, nq>>

Spawned(p) == child[p] # "none"

\* The locals of a thread that is in no call.
IdleRec == [pc |-> "idle", op |-> "", ctx |-> "", tgt |-> 0, p |-> 0, np |-> 0,
            dp |-> 0, req |-> None, item |-> None, out |-> None, acc |-> <<>>,
            src |-> "stdout", block |-> TRUE, rc |-> "", capout |-> <<>>,
            caperr |-> <<>>, deadAtStart |-> FALSE, oldcur |-> 0, n |-> 0,
            nh |-> 0, wdead |-> FALSE, enq |-> FALSE, k |-> 0, snap |-> <<>>,
            exc |-> FALSE, count |-> None]

----------------------------------------------------------------------------
(* The workers and the child of one Process.                                *)

\* LineWriterQueue._writer, the get of iter(self.get, None).
WriterGet(p) ==
    /\ Spawned(p)
    /\ wthread[p] = "idle"
    /\ qin[p] # <<>>
    /\ whold' = [whold EXCEPT ![p] = Head(qin[p])]
    /\ qin' = [qin EXCEPT ![p] = Tail(qin[p])]
    /\ wthread' = [wthread EXCEPT ![p] = "hold"]
    /\ UNCHANGED <<child, inpipe, rpipe, rqueue, rthread, putlog, written, emitted>>
    /\ UNCHANGED <<batchvars, callvars>>

\* LineWriterQueue._writer, the body of the loop and its end: None ends the
\* loop and the with block closes stdin; print to the pipe of an exited child
\* raises, which ends the thread with the line it held.
WriterPut(p) ==
    /\ Spawned(p)
    /\ wthread[p] = "hold"
    /\ whold' = [whold EXCEPT ![p] = None]
    /\ IF whold[p] # None /\ child[p] = "alive"
       THEN /\ inpipe' = [inpipe EXCEPT ![p] = Append(inpipe[p], whold[p])]
            /\ written' = [written EXCEPT ![p] = Append(written[p], whold[p])]
            /\ wthread' = [wthread EXCEPT ![p] = "idle"]
       ELSE /\ wthread' = [wthread EXCEPT ![p] = "dead"]
            /\ UNCHANGED <<inpipe, written, emitted>>
    /\ UNCHANGED <<child, rpipe, qin, rqueue, rthread, putlog, emitted>>
    /\ UNCHANGED <<batchvars, callvars>>

\* LineReaderQueue._reader: one line from the source into the queue, or at
\* end of file the None of the finally clause.
ReaderRead(p, s) ==
    /\ Spawned(p)
    /\ rthread[p][s] = "run"
    /\ IF rpipe[p][s] # <<>>
       THEN /\ rqueue' = [rqueue EXCEPT ![p][s] = Append(@, Head(rpipe[p][s]))]
            /\ rpipe' = [rpipe EXCEPT ![p][s] = Tail(@)]
            /\ UNCHANGED rthread
       ELSE /\ child[p] # "alive"
            /\ rqueue' = [rqueue EXCEPT ![p][s] = Append(@, None)]
            /\ rthread' = [rthread EXCEPT ![p][s] = "closing"]
            /\ UNCHANGED rpipe
    /\ UNCHANGED <<child, inpipe, qin, wthread, whold, putlog, written, emitted>>
    /\ UNCHANGED <<batchvars, callvars>>

\* LineReaderQueue._reader returns: the thread is no longer alive.
ReaderExit(p, s) ==
    /\ Spawned(p)
    /\ rthread[p][s] = "closing"
    /\ rthread' = [rthread EXCEPT ![p][s] = "dead"]
    /\ UNCHANGED <<child, inpipe, rpipe, qin, rqueue, wthread, whold, putlog, written, emitted>>
    /\ UNCHANGED <<batchvars, callvars>>

\* The batch child reads one request line and prints its answer.
ChildRespond(p) ==
    /\ child[p] = "alive"
    /\ inpipe[p] # <<>>
    /\ rpipe' = [rpipe EXCEPT ![p]["stdout"] = Append(@, Resp(Head(inpipe[p])))]
    /\ inpipe' = [inpipe EXCEPT ![p] = Tail(inpipe[p])]
    /\ UNCHANGED <<child, qin, rqueue, wthread, whold, rthread, putlog, written, emitted>>
    /\ UNCHANGED <<batchvars, callvars>>

\* What a child may print on stdout for a request: its answer, an empty
\* line, or the text of an error.
Answers(line) == {Resp(line), Text(<<>>), NotRepoLine}

\* The batch child reads one request line and prints one line, whatever it
\* is.
ChildRespondAny(p) ==
    /\ child[p] = "alive"
    /\ inpipe[p] # <<>>
    /\ \E a \in Answers(Head(inpipe[p])) :
          /\ rpipe' = [rpipe EXCEPT ![p]["stdout"] = Append(@, a)]
          /\ emitted' = [emitted EXCEPT ![p]["stdout"] = Append(@, a)]
    /\ inpipe' = [inpipe EXCEPT ![p] = Tail(inpipe[p])]
    /\ UNCHANGED <<child, qin, rqueue, wthread, whold, rthread, putlog, written>>
    /\ UNCHANGED <<batchvars, callvars>>

\* The child exits on its own or is killed: status 0, or non-zero with one
\* of the stderr outputs errs.  What it had not read of its stdin is gone.
ChildExit(p, errs) ==
    /\ child[p] = "alive"
    /\ \E rc \in {"exit0", "exitErr"} :
       \E e \in errs :
          /\ rc = "exit0" => e = <<>>
          /\ child' = [child EXCEPT ![p] = rc]
          /\ rpipe' = [rpipe EXCEPT ![p]["stderr"] = @ \o e]
    /\ inpipe' = [inpipe EXCEPT ![p] = <<>>]
    /\ UNCHANGED <<qin, rqueue, wthread, whold, rthread, putlog, written, emitted>>
    /\ UNCHANGED <<batchvars, callvars>>

\* A batch child whose stdin was closed has read everything and exits with 0.
ChildEOF(p) ==
    /\ child[p] = "alive"
    /\ wthread[p] = "dead"
    /\ inpipe[p] = <<>>
    /\ child' = [child EXCEPT ![p] = "exit0"]
    /\ UNCHANGED <<inpipe, rpipe, qin, rqueue, wthread, whold, rthread, putlog, written, emitted>>
    /\ UNCHANGED <<batchvars, callvars>>

\* A child that takes no input prints its next line, on stdout or on stderr,
\* MaxOut lines in all.
ChildPrint(p) ==
    LET n == Len(emitted[p]["stdout"]) + Len(emitted[p]["stderr"]) IN
    /\ child[p] = "alive"
    /\ n < MaxOut
    /\ \E s \in Streams :
          /\ rpipe' = [rpipe EXCEPT ![p][s] = Append(@, Resp(Req(n + 1)))]
          /\ emitted' = [emitted EXCEPT ![p][s] = Append(@, Resp(Req(n + 1)))]
    /\ UNCHANGED <<child, inpipe, qin, rqueue, wthread, whold, rthread, putlog, written>>
    /\ UNCHANGED <<batchvars, callvars>>

\* The processes the GitAnnexBatchProcess or a call in progress refers to.
\* Nothing reads the queues of any other process again, so its workers and
\* child are not scheduled.
Referenced ==
    {cur} \cup {th[t].tgt : t \in DOMAIN th} \cup {th[t].np : t \in DOMAIN th}
          \cup {th[t].dp : t \in DOMAIN th} \cup {th[t].p : t \in DOMAIN th}

\* The stdin writer, the stdout reader and the child of a process.
Workers ==
    \E p \in Procs \cap Referenced :
        \/ WriterGet(p)
        \/ WriterPut(p)
        \/ ReaderRead(p, "stdout")
        \/ ReaderExit(p, "stdout")
        \/ ChildRespond(p)
        \/ ChildEOF(p)

\* The child exits; it printed nothing on stderr.
Exits == \E p \in Procs \cap Referenced : ChildExit(p, {<<>>})

\* The child exits, with or without a line on stderr.
ErrExits == ChildExit(1, {<<>>, <<NotRepoLine>>})

\* The first MaxKills children to exit.
Kills ==
    /\ Cardinality({p \in Procs : child[p] \in {"exit0", "exitErr"}}) < MaxKills
    /\ Exits

\* The stderr reader of a process.
ErrWorkers ==
    \E p \in Procs \cap Referenced :
        \/ ReaderRead(p, "stderr")
        \/ ReaderExit(p, "stderr")

----------------------------------------------------------------------------
(* The calling threads.  A call is a sequence of steps: every access to a   *)
(* queue, a worker or the child that another thread can interleave with is  *)
(* a step of its own.                                                       *)

Goto(t, r) == th' = [th EXCEPT ![t] = r] /\ UNCHANGED hist

\* The call of thread t ends: it returns val (kind "ok") or raises kind.
DoneR(t, r, kind, val) ==
    /\ hist' = Append(hist, [t |-> t, n |-> r.n, op |-> r.op, req |-> r.req,
                             src |-> r.src, proc |-> r.p, np |-> r.np,
                             kind |-> kind, val |-> val, rc |-> r.rc,
                             caperr |-> r.caperr,
                             deadAtStart |-> r.deadAtStart,
                             oldcur |-> r.oldcur, nh |-> r.nh,
                             wdead |-> r.wdead, enq |-> r.enq, snap |-> r.snap,
                             count |-> r.count, out |-> r.out, ctx |-> r.ctx,
                             replayed |-> IF r.op = "query" THEN r.acc ELSE <<>>,
                             aliveEnd |-> (r.p # 0 /\ child[r.p] = "alive")])
    /\ th' = [th EXCEPT ![t] = IdleRec]

Done(t, kind, val) == DoneR(t, th[t], kind, val)

\* ---- LineWriterQueue.put, as Process.writeline calls it ----

\* What follows a put that returned, by the place of the call.
AfterPut(t, r) ==
    CASE r.ctx = "req" ->
            Goto(t, [r EXCEPT !.pc = "get_chk", !.src = "stdout", !.block = TRUE])
      [] r.ctx = "handler" -> DoneR(t, r, "CalledProcessError", None)
      [] r.ctx = "final" -> DoneR(t, r, "ok", r.out)
      [] r.ctx = "exit" -> Goto(t, [r EXCEPT !.pc = "close"])
      [] r.ctx = "replay" ->
            IF r.k < Len(r.acc)
            THEN Goto(t, [r EXCEPT !.pc = "put_chk", !.k = r.k + 1,
                                   !.item = r.acc[r.k + 1]])
            ELSE Goto(t, [r EXCEPT !.pc = "install_dead"])
      [] OTHER -> DoneR(t, r, "ok", None)

\* A put that does not look at the writer worker.
PutAliveAlways(p) == TRUE

\* with self.mutex: if not self._thread.is_alive(): raise BrokenPipeError
PutAlive(p) == wthread[p] # "dead"

PutChk(t) ==
    /\ th[t].pc = "put_chk"
    /\ IF PutAlive(th[t].tgt)
       THEN Goto(t, [th[t] EXCEPT !.pc = "put_enq"])
       ELSE IF th[t].ctx = "exit"
            THEN Goto(t, [th[t] EXCEPT !.pc = "close"])
            ELSE Done(t, "BrokenPipeError", None)
    /\ UNCHANGED <<procvars, batchvars, nq>>

\* A put that enqueues the item twice.
QueuePutTwice(q, item) == Append(Append(q, item), item)

\* queue.Queue.put: the item goes to the end of the queue.
QueuePut(q, item) == Append(q, item)

\* super().put(item, ...)
PutEnq(t) ==
    LET r == th[t] IN
    /\ r.pc = "put_enq"
    /\ qin' = [qin EXCEPT ![r.tgt] = QueuePut(@, r.item)]
    /\ putlog' = [putlog EXCEPT ![r.tgt] = QueuePut(@, r.item)]
    /\ IF r.item = None
       THEN Goto(t, [r EXCEPT !.pc = "put_join", !.enq = TRUE])
       ELSE AfterPut(t, [r EXCEPT !.enq = TRUE])
    /\ UNCHANGED <<child, inpipe, rpipe, rqueue, wthread, whold, rthread, written, emitted>>
    /\ UNCHANGED <<batchvars, nq>>

\* A put of None that does not wait for the writer worker.
PutNoJoin(t) ==
    /\ th[t].pc = "put_join"
    /\ AfterPut(t, th[t])
    /\ UNCHANGED <<procvars, batchvars, nq>>

\* if item is None: self._thread.join()
PutJoin(t) ==
    /\ th[t].pc = "put_join"
    /\ wthread[th[t].tgt] = "dead"
    /\ AfterPut(t, th[t])
    /\ UNCHANGED <<procvars, batchvars, nq>>

\* ---- json.dumps and json.loads, as JsonProcess calls them ----

\* The objects: None is the None of the queues and a str is a Text.
PyInt(n) == [k |-> "int", v |-> n]
PyBool(b) == [k |-> "bool", v |-> b]
PyList(xs) == [k |-> "list", v |-> xs]
PyTuple(xs) == [k |-> "tuple", v |-> xs]
\* A dict is a function from its keys to its values.
PyDict(f) == [k |-> "dict", v |-> f]
JSONDecodeError == [k |-> "JSONDecodeError", id |-> 0]

NullChars == <<"n", "u", "l", "l">>
TrueChars == <<"t", "r", "u", "e">>
FalseChars == <<"f", "a", "l", "s", "e">>
DigitChars == <<"0", "1", "2", "3", "4", "5", "6", "7", "8", "9">>
Quote == "\""
Backslash == "\\"

IsDigit(c) == \E n \in 1..Len(DigitChars) : DigitChars[n] = c
DigitVal(c) == (CHOOSE n \in 1..Len(DigitChars) : DigitChars[n] = c) - 1

\* An int that is not negative, in decimal.
RECURSIVE IntChars(_)
IntChars(n) ==
    IF n < Len(DigitChars) THEN <<DigitChars[n + 1]>>
    ELSE IntChars(n \div Len(DigitChars)) \o <<DigitChars[(n % Len(DigitChars)) + 1]>>

\* An encoder that writes every character of a str as it is.
EscapeNothing(c) == <<c>>

\* The encoder's escape of one character of a str.
EscapeChar(c) ==
    CASE c = NL -> <<Backslash, "n">>
      [] c = Quote -> <<Backslash, Quote>>
      [] c = Backslash -> <<Backslash, Backslash>>
      [] OTHER -> <<c>>

RECURSIVE EscapeStr(_)
EscapeStr(s) == IF s = <<>> THEN <<>> ELSE EscapeChar(Head(s)) \o EscapeStr(Tail(s))

QuotedStr(s) == <<Quote>> \o EscapeStr(s) \o <<Quote>>

\* The key of a dict as the encoder writes it: a str as it is, an int, a
\* bool and None as the str of their JSON text.
DumpsKey(key) ==
    CASE key = None -> QuotedStr(NullChars)
      [] key.k = "text" -> QuotedStr(key.txt)
      [] key.k = "int" -> QuotedStr(IntChars(key.v))
      [] key.k = "bool" -> QuotedStr(IF key.v THEN TrueChars ELSE FalseChars)

\* json.dumps(obj) with the default separators ', ' and ': '.  A tuple is
\* written as a list.
RECURSIVE Dumps(_), DumpsSeq(_), DumpsItems(_, _)
Dumps(obj) ==
    CASE obj = None -> NullChars
      [] obj.k = "bool" -> IF obj.v THEN TrueChars ELSE FalseChars
      [] obj.k = "int" -> IntChars(obj.v)
      [] obj.k = "text" -> QuotedStr(obj.txt)
      [] obj.k \in {"list", "tuple"} -> <<"[">> \o DumpsSeq(obj.v) \o <<"]">>
      [] obj.k = "dict" -> <<"{">> \o DumpsItems(obj.v, DOMAIN obj.v) \o <<"}">>

DumpsSeq(xs) ==
    IF xs = <<>> THEN <<>>
    ELSE Dumps(Head(xs)) \o
         (IF Len(xs) = 1 THEN <<>> ELSE <<",", " ">> \o DumpsSeq(Tail(xs)))

DumpsItems(f, keys) ==
    IF keys = {} THEN <<>>
    ELSE LET key == CHOOSE x \in keys : TRUE
             rest == keys \ {key}
         IN DumpsKey(key) \o <<":", " ">> \o Dumps(f[key]) \o
            (IF rest = {} THEN <<>> ELSE <<",", " ">> \o DumpsItems(f, rest))

\* The decoder: each operator returns the value it read and the characters
\* after it.
Parsed(v, rest) == [v |-> v, rest |-> rest]
ParseFail == Parsed(JSONDecodeError, <<>>)
StartsWith(s, p) == Len(s) >= Len(p) /\ SubSeq(s, 1, Len(p)) = p
Drop(s, n) == SubSeq(s, n + 1, Len(s))

RECURSIVE SkipSpace(_)
SkipSpace(s) == IF s # <<>> /\ Head(s) = " " THEN SkipSpace(Tail(s)) ELSE s

RECURSIVE ParseInt(_, _)
ParseInt(s, acc) ==
    IF s # <<>> /\ IsDigit(Head(s))
    THEN ParseInt(Tail(s), acc * Len(DigitChars) + DigitVal(Head(s)))
    ELSE Parsed(PyInt(acc), s)

\* The characters of a str up to its closing quote.
RECURSIVE ParseStr(_, _)
ParseStr(s, acc) ==
    IF s = <<>> \/ Head(s) = NL THEN ParseFail
    ELSE IF Head(s) = Quote THEN Parsed(Text(acc), Tail(s))
    ELSE IF Head(s) = Backslash
         THEN IF Len(s) < 2 THEN ParseFail
              ELSE ParseStr(Drop(s, 2), Append(acc, IF s[2] = "n" THEN NL ELSE s[2]))
         ELSE ParseStr(Tail(s), Append(acc, Head(s)))

\* A dict with one more item; the item replaces one of the same key.
WithItem(f, key, val) ==
    [x \in DOMAIN f \cup {key} |-> IF x = key THEN val ELSE f[x]]

RECURSIVE ParseValue(_), ParseArray(_, _), ParseObject(_, _)
ParseValue(s0) ==
    LET s == SkipSpace(s0) IN
    IF s = <<>> THEN ParseFail
    ELSE IF StartsWith(s, NullChars) THEN Parsed(None, Drop(s, Len(NullChars)))
    ELSE IF StartsWith(s, TrueChars) THEN Parsed(PyBool(TRUE), Drop(s, Len(TrueChars)))
    ELSE IF StartsWith(s, FalseChars) THEN Parsed(PyBool(FALSE), Drop(s, Len(FalseChars)))
    ELSE IF IsDigit(Head(s)) THEN ParseInt(s, 0)
    ELSE IF Head(s) = Quote THEN ParseStr(Tail(s), <<>>)
    ELSE IF Head(s) = "[" THEN ParseArray(Tail(s), <<>>)
    ELSE IF Head(s) = "{" THEN ParseObject(Tail(s), <<>>)
    ELSE ParseFail

\* The items of an array after its bracket or after an item.
ParseArray(s0, acc) ==
    LET s == SkipSpace(s0) IN
    IF s = <<>> THEN ParseFail
    ELSE IF Head(s) = "]" THEN Parsed(PyList(acc), Tail(s))
    ELSE IF Head(s) = "," /\ acc # <<>> THEN
         LET r == ParseValue(Tail(s)) IN
         IF r.v = JSONDecodeError THEN ParseFail
         ELSE ParseArray(r.rest, Append(acc, r.v))
    ELSE IF acc = <<>> THEN
         LET r == ParseValue(s) IN
         IF r.v = JSONDecodeError THEN ParseFail
         ELSE ParseArray(r.rest, Append(acc, r.v))
    ELSE ParseFail

\* The items of an object after its brace or after an item: a str, a colon
\* and a value.
ParseObject(s0, f) ==
    LET s == SkipSpace(s0) IN
    IF s = <<>> THEN ParseFail
    ELSE IF Head(s) = "}" THEN Parsed(PyDict(f), Tail(s))
    ELSE LET s1 == IF Head(s) = "," /\ DOMAIN f # {} THEN SkipSpace(Tail(s)) ELSE s
             key == IF s1 # <<>> /\ Head(s1) = Quote
                    THEN ParseStr(Tail(s1), <<>>) ELSE ParseFail
             s2 == SkipSpace(key.rest)
             val == IF s2 # <<>> /\ Head(s2) = ":"
                    THEN ParseValue(Tail(s2)) ELSE ParseFail
         IN IF (Head(s) # "," /\ DOMAIN f # {}) \/ key.v = JSONDecodeError
               \/ val.v = JSONDecodeError
            THEN ParseFail
            ELSE ParseObject(val.rest, WithItem(f, key.v, val.v))

\* json.loads(line): the value of the whole line, or JSONDecodeError.
Loads(line) ==
    LET r == ParseValue(line) IN
    IF r.v # JSONDecodeError /\ SkipSpace(r.rest) = <<>> THEN r.v ELSE JSONDecodeError

\* JsonProcess.readjson, after its readline returned line.
ReadJson(line) ==
    IF line # None /\ line # Text(NullChars) THEN Loads(line.txt) ELSE line

\* JsonProcess.writejson, the line it hands to writeline.
WriteJson(obj) == IF obj # None THEN Text(Dumps(obj)) ELSE None

\* ---- LineReaderQueue.get, as Process.readline calls it ----

\* A get that looks at the thread alone.
GetBrokenDeadOnly(p, s) == rthread[p][s] = "dead"

\* with self.mutex: not self._thread.is_alive() and self._qsize() == 0
GetBroken(p, s) == rthread[p][s] = "dead" /\ rqueue[p][s] = <<>>

\* An islice that never stops.
CountNever(acc, count) == FALSE

\* itertools.islice(it, count) has yielded count items; a None count is
\* unlimited.
CountReached(acc, count) == count # None /\ Len(acc) >= count.v

\* The list a readlines returns.
ListOf(acc) == [k |-> "list", v |-> acc]

\* The newline between two lines of a text, for lines that are one item each.
NLItem == [k |-> "nl", id |-> 0]

\* '\n'.join(outs)
RECURSIVE JoinSep(_)
JoinSep(outs) ==
    IF Len(outs) <= 1 THEN outs ELSE <<Head(outs), NLItem>> \o JoinSep(Tail(outs))

\* Process.communicate: ('\n'.join(outs) + '\n') if outs else ''
JoinNL(outs) == IF outs = <<>> THEN <<>> ELSE Append(JoinSep(outs), NLItem)

\* The tuple (stdout, stderr) of a communicate.
Pair(out, err) == [k |-> "pair", stdout |-> out, stderr |-> err]

\* A readlines returns its output.  In communicate the readlines on stdout is
\* followed by readlines(timeout=0, source='stderr', count=None), and the two
\* lists are joined.
LinesReturn(t, r) ==
    IF r.op = "communicate"
    THEN IF r.src = "stdout"
         THEN Goto(t, [r EXCEPT !.pc = "rl_next", !.src = "stderr",
                                !.capout = r.acc, !.acc = <<>>])
         ELSE DoneR(t, r, "ok", Pair(JoinNL(r.capout), JoinNL(r.acc)))
    ELSE DoneR(t, r, "ok", ListOf(r.acc))

\* What follows a get that returned item.  In readlines, iter(readline, None)
\* ends on None and output.append(line) takes any other item.
AfterGet(t, item) ==
    LET r == th[t] IN
    IF r.ctx = "req"
    THEN Goto(t, [r EXCEPT !.pc = "chk", !.ctx = "query", !.out = item])
    ELSE IF r.op \in {"readlines", "communicate"}
    THEN IF item = None
         THEN LinesReturn(t, r)
         ELSE Goto(t, [r EXCEPT !.pc = "rl_next", !.acc = Append(r.acc, item)])
    ELSE IF r.op = "readjson"
         THEN Done(t, IF ReadJson(item) = JSONDecodeError
                      THEN "JSONDecodeError" ELSE "ok", ReadJson(item))
         ELSE Done(t, "ok", item)

\* What follows a get that raised: readline raises TimeoutError or
\* BrokenPipeError; readlines catches both and returns its output.
GetRaises(t, kind) ==
    IF th[t].op \in {"readlines", "communicate"}
    THEN LinesReturn(t, th[t])
    ELSE Done(t, kind, None)

GetChk(t) ==
    /\ th[t].pc = "get_chk"
    /\ IF GetBroken(th[t].tgt, th[t].src)
       THEN GetRaises(t, "BrokenPipeError")
       ELSE Goto(t, [th[t] EXCEPT !.pc = "get_take"])
    /\ UNCHANGED <<procvars, batchvars, nq>>

\* A get that waits for an item whatever block says.
GetTakeWaits(t) ==
    LET r == th[t]
        q == rqueue[r.tgt][r.src]
    IN
    /\ r.pc = "get_take"
    /\ q # <<>>
    /\ rqueue' = [rqueue EXCEPT ![r.tgt][r.src] = Tail(q)]
    /\ IF Head(q) = None
       THEN Goto(t, [r EXCEPT !.pc = "get_join", !.out = None])
       ELSE AfterGet(t, Head(q))
    /\ UNCHANGED <<child, inpipe, rpipe, qin, wthread, whold, rthread, putlog, written, emitted>>
    /\ UNCHANGED <<batchvars, nq>>

\* super().get(block=block, timeout=timeout): a blocking get waits for an
\* item, a non-blocking one raises queue.Empty, which Process.readline
\* raises as TimeoutError.
GetTake(t) ==
    LET r == th[t]
        q == rqueue[r.tgt][r.src]
    IN
    /\ r.pc = "get_take"
    /\ IF q = <<>>
       THEN /\ ~r.block
            /\ GetRaises(t, "TimeoutError")
            /\ UNCHANGED rqueue
       ELSE /\ rqueue' = [rqueue EXCEPT ![r.tgt][r.src] = Tail(q)]
            /\ IF Head(q) = None
               THEN Goto(t, [r EXCEPT !.pc = "get_join", !.out = None])
               ELSE AfterGet(t, Head(q))
    /\ UNCHANGED <<child, inpipe, rpipe, qin, wthread, whold, rthread, putlog, written, emitted>>
    /\ UNCHANGED <<batchvars, nq>>

\* if item is None: self._thread.join()
GetJoin(t) ==
    /\ th[t].pc = "get_join"
    /\ rthread[th[t].tgt][th[t].src] = "dead"
    /\ AfterGet(t, None)
    /\ UNCHANGED <<procvars, batchvars, nq>>

\* ---- Process.readlines and Process.check ----

\* The place of the first None of a queue, 0 when it holds none.
NonePos(q) ==
    IF \E i \in 1..Len(q) : q[i] = None
    THEN CHOOSE i \in 1..Len(q) : q[i] = None /\ \A j \in 1..(i - 1) : q[j] # None
    ELSE 0

\* Process.readlines(timeout=0, count=None): the lines up to the first None,
\* an empty queue (TimeoutError) or a dead reader (BrokenPipeError).
LinesOf(q) == IF NonePos(q) = 0 THEN q ELSE SubSeq(q, 1, NonePos(q) - 1)

\* A readlines that leaves in the queue what it returns.
RestKept(q) == q

\* What readlines leaves in the queue: the None it met is removed too.
RestOf(q) == IF NonePos(q) = 0 THEN <<>> ELSE SubSeq(q, NonePos(q) + 1, Len(q))
\* LineReaderQueue.get joins the reader after it took a None.
JoinOK(p, s) == NonePos(rqueue[p][s]) # 0 => rthread[p][s] = "dead"

\* Process.check, first half: poll(), and for an exited child the stdout half
\* of communicate(timeout=0).  In GitAnnexBatchProcess.__call__ a None output
\* waits for the child first.
Chk(t) ==
    LET r == th[t]
        p == r.tgt
    IN
    /\ r.pc = "chk"
    /\ (r.ctx = "query" /\ r.out = None) => child[p] # "alive"
    /\ IF child[p] = "alive"
       THEN /\ IF r.ctx = "new"
               THEN Goto(t, [r EXCEPT !.pc = "ifproc"])
               ELSE Done(t, "ok", r.out)
            /\ UNCHANGED rqueue
       ELSE /\ JoinOK(p, "stdout")
            /\ rqueue' = [rqueue EXCEPT ![p]["stdout"] = RestOf(@)]
            /\ Goto(t, [r EXCEPT !.pc = "chk_err", !.rc = child[p],
                                 !.capout = LinesOf(rqueue[p]["stdout"])])
    /\ UNCHANGED <<child, inpipe, rpipe, qin, wthread, whold, rthread, putlog, written, emitted>>
    /\ UNCHANGED <<batchvars, nq>>

\* A result that carries no output.
CompletedNoOutput(rc, outs, errs) ==
    [k |-> "completed", rc |-> rc, stdout |-> <<>>, stderr |-> <<>>]

\* subprocess.CompletedProcess(args, returncode, stdout, stderr); the
\* CalledProcessError that check_returncode raises has the same fields.
Completed(rc, outs, errs) ==
    [k |-> "completed", rc |-> rc, stdout |-> JoinNL(outs), stderr |-> JoinNL(errs)]

\* A new process that exited non-zero is reported as it is.
SpawnErrorKindPlain(stderr) == "CalledProcessError"

\* The exception a new process that exited non-zero is reported with
\* (GitAnnexBatchProcess.process, except subprocess.CalledProcessError).
SpawnErrorKind(stderr) ==
    IF \E i \in 1..Len(stderr) : stderr[i] = NotRepoLine
    THEN "NotAGitRepoError"
    ELSE "CalledProcessError"

\* Process.check, second half: the stderr half of communicate and
\* check_returncode; then what the caller of check does with the result.
ChkErr(t) ==
    LET r == th[t]
        p == r.tgt
        r2 == [r EXCEPT !.caperr = LinesOf(rqueue[p]["stderr"])]
    IN
    /\ r.pc = "chk_err"
    /\ JoinOK(p, "stderr")
    /\ rqueue' = [rqueue EXCEPT ![p]["stderr"] = RestOf(@)]
    /\ IF r.ctx = "direct"
       THEN DoneR(t, r2, IF r.rc = "exitErr" THEN "CalledProcessError" ELSE "ok",
                  Completed(r.rc, r.capout, r2.caperr))
       ELSE
       IF r.rc = "exitErr"
       THEN IF r.ctx = "new"
            THEN DoneR(t, r2, SpawnErrorKind(r2.caperr), None)
            ELSE Goto(t, [r2 EXCEPT !.pc = "put_chk", !.ctx = "handler",
                                    !.item = None])
       ELSE IF r.ctx = "new"
            THEN Goto(t, [r2 EXCEPT !.pc = "ifproc"])
            ELSE IF r.req # None
                 THEN Goto(t, [r2 EXCEPT !.pc = "put_chk", !.ctx = "final",
                                         !.item = None])
                 ELSE DoneR(t, r2, "ok", r.out)
    /\ UNCHANGED <<child, inpipe, rpipe, qin, wthread, whold, rthread, putlog, written, emitted>>
    /\ UNCHANGED <<batchvars, nq>>

\* ---- GitAnnexBatchProcess ----

\* GitAnnexBatchProcess.__call__(line) begins.
StartQuery(t) ==
    /\ th[t].pc = "idle"
    /\ nq < MaxQueries
    /\ nq' = nq + 1
    /\ \E line \in {Req(nq + 1), None} :
          Goto(t, [IdleRec EXCEPT !.pc = "prop", !.op = "query", !.req = line,
                                  !.n = nq + 1, !.nh = Len(hist)])
    /\ UNCHANGED <<procvars, batchvars>>

\* A property that starts a process on every call.
NeedsRestartAlways == TRUE

\* The test of the process property: not (self._process and
\* self._process.poll() is None).
NeedsRestart == ~(cur # 0 /\ child[cur] = "alive")

Prop(t) ==
    LET r == [th[t] EXCEPT !.oldcur = cur,
                           !.deadAtStart = (cur # 0 /\ child[cur] # "alive")]
    IN
    /\ th[t].pc = "prop"
    /\ IF NeedsRestart
       THEN Goto(t, [r EXCEPT !.pc = "spawn"])
       ELSE Goto(t, [r EXCEPT !.pc = "put_chk", !.ctx = "req", !.p = cur,
                              !.tgt = cur, !.item = r.req])
    /\ UNCHANGED <<procvars, batchvars, nq>>

\* sub in text, for sequences.
Contains(sub, text) ==
    \E i \in 0..(Len(text) - Len(sub)) : SubSeq(text, i + 1, i + Len(sub)) = sub

\* The words of the messages of the operating system.
NoSuchFile == "No such file or directory"
Colon == ":"

\* The FileNotFoundError of Popen for a working directory or a program that
\* is missing.  Python 3.5 puts the path in the message, after a colon; later
\* versions put it in filename and leave the message plain.
MissingWorkdir ==
    [k |-> "FileNotFoundError", strerror |-> <<NoSuchFile, Colon, "path">>]

SpawnErrors ==
    {MissingWorkdir, [k |-> "FileNotFoundError", strerror |-> <<NoSuchFile>>]}

\* What the process property raises for an exception of Popen: except
\* FileNotFoundError as err: if "No such file or directory:" in
\* err.strerror: raise NotAGitRepoError(msg) from err; else: raise.
SpawnRaisesKind(err) ==
    IF err.k = "FileNotFoundError" /\ Contains(<<NoSuchFile, Colon>>, err.strerror)
    THEN "NotAGitRepoError"
    ELSE err.k

\* new_process = self._procclass(self.args, self.workdir): Popen starts the
\* child and Process.__init__ its three workers, or Popen raises
\* FileNotFoundError with the path in its message, which the property raises
\* as NotAGitRepoError.
Spawn(t) ==
    LET r == th[t]
        n == nprocs + 1
    IN
    /\ r.pc = "spawn"
    /\ nprocs < MaxProcs
    /\ \/ /\ Done(t, SpawnRaisesKind(MissingWorkdir), MissingWorkdir)
          /\ UNCHANGED <<procvars, batchvars>>
       \/ /\ nprocs' = n
          /\ child' = [child EXCEPT ![n] = "alive"]
          /\ Goto(t, [r EXCEPT !.pc = "chk", !.ctx = "new", !.np = n, !.tgt = n])
          /\ UNCHANGED <<inpipe, rpipe, qin, rqueue, wthread, whold, rthread,
                         putlog, written, cur, dead, emitted>>
    /\ UNCHANGED nq

\* new_process = self._procclass(self.args, self.workdir) raises with the
\* plain message: the call ends with the exception of the property, whose
\* cause is that of Popen.
SpawnRaises(t) ==
    /\ th[t].pc = "spawn"
    /\ \E err \in SpawnErrors \ {MissingWorkdir} :
          Done(t, SpawnRaisesKind(err), err)
    /\ UNCHANGED <<procvars, batchvars, nq>>

\* if self._process:
IfProc(t) ==
    LET r == th[t] IN
    /\ r.pc = "ifproc"
    /\ IF cur # 0
       THEN Goto(t, [r EXCEPT !.pc = "drain", !.dp = cur, !.acc = <<>>])
       ELSE Goto(t, [r EXCEPT !.pc = "install_cur"])
    /\ UNCHANGED <<procvars, batchvars, nq>>

\* A restart that forgets the lines it took from the old process.
StartReplaySkip(r, lines) == [r EXCEPT !.pc = "install_dead", !.acc = lines]

\* A restart that replays every line ever put on the old process.
StartReplayAll(r, lines) ==
    LET all == LinesOf(putlog[r.dp]) IN
    IF all # <<>>
    THEN [r EXCEPT !.pc = "put_chk", !.ctx = "replay", !.tgt = r.np,
                   !.acc = all, !.k = 1, !.item = all[1]]
    ELSE [r EXCEPT !.pc = "install_dead", !.acc = <<>>]

\* What follows stdin = self._process.readlines(source='stdin'):
\* new_process.writelines(stdin), whose k-th put is that of lines[k].
StartReplay(r, lines) ==
    IF lines # <<>>
    THEN [r EXCEPT !.pc = "put_chk", !.ctx = "replay", !.tgt = r.np,
                   !.acc = lines, !.k = 1, !.item = lines[1]]
    ELSE [r EXCEPT !.pc = "install_dead", !.acc = <<>>]

\* One readline(timeout=0, source='stdin') of that readlines: a get on the
\* outbound queue of the old process, which is a plain Queue.get.
Drain(t) ==
    LET r == th[t]
        q == qin[r.dp]
    IN
    /\ r.pc = "drain"
    /\ IF q = <<>>
       THEN /\ Goto(t, StartReplay(r, r.acc))
            /\ UNCHANGED qin
       ELSE /\ qin' = [qin EXCEPT ![r.dp] = Tail(q)]
            /\ IF Head(q) = None
               THEN Goto(t, StartReplay(r, r.acc))
               ELSE Goto(t, [r EXCEPT !.acc = Append(r.acc, Head(q))])
    /\ UNCHANGED <<child, inpipe, rpipe, rqueue, wthread, whold, rthread, putlog, written, emitted>>
    /\ UNCHANGED <<batchvars, nq>>

\* A restart that records the new process as the dead one.
InstallDeadNew(t) ==
    /\ th[t].pc = "install_dead"
    /\ dead' = th[t].np
    /\ Goto(t, [th[t] EXCEPT !.pc = "install_cur"])
    /\ UNCHANGED <<procvars, cur, nprocs, nq>>

\* self._dead_process = self._process
InstallDead(t) ==
    /\ th[t].pc = "install_dead"
    /\ dead' = cur
    /\ Goto(t, [th[t] EXCEPT !.pc = "install_cur"])
    /\ UNCHANGED <<procvars, cur, nprocs, nq>>

\* self._process = new_process; return self._process.  __call__ goes on
\* with p(line), whose first step is the put of Process.writeline.
InstallCur(t) ==
    LET r == th[t] IN
    /\ r.pc = "install_cur"
    /\ cur' = r.np
    /\ Goto(t, [r EXCEPT !.pc = "put_chk", !.ctx = "req", !.p = r.np,
                         !.tgt = r.np, !.item = r.req])
    /\ UNCHANGED <<procvars, dead, nprocs, nq>>

\* ---- Process, used directly ----

\* Process.writeline(item) on process 1 begins.
StartWrite(t) ==
    /\ th[t].pc = "idle"
    /\ nq < MaxCalls
    /\ nq' = nq + 1
    /\ \E item \in {Req(nq + 1), None} :
          Goto(t, [IdleRec EXCEPT !.pc = "put_chk", !.op = "writeline",
                                  !.ctx = "direct", !.p = 1, !.tgt = 1,
                                  !.req = item, !.item = item, !.n = nq + 1,
                                  !.nh = Len(hist),
                                  !.wdead = (wthread[1] = "dead")])
    /\ UNCHANGED <<procvars, batchvars>>

\* Process.readline(timeout, source) on process 1 begins: timeout=None
\* blocks; timeout=0 does not, and neither does a finite timeout once it
\* has run out.
StartRead(t) ==
    /\ th[t].pc = "idle"
    /\ nq < MaxQueries
    /\ nq' = nq + 1
    /\ \E s \in Streams, b \in BOOLEAN :
          Goto(t, [IdleRec EXCEPT !.pc = "get_chk", !.op = "readline",
                                  !.ctx = "direct", !.p = 1, !.tgt = 1,
                                  !.src = s, !.block = b, !.n = nq + 1,
                                  !.nh = Len(hist)])
    /\ UNCHANGED <<procvars, batchvars>>

\* Process.check() on process 1 begins.  snap is what the reader queues
\* hold at that moment.
StartCheck(t) ==
    /\ th[t].pc = "idle"
    /\ nq < MaxCalls
    /\ nq' = nq + 1
    /\ Goto(t, [IdleRec EXCEPT !.pc = "chk", !.op = "check", !.ctx = "direct",
                               !.p = 1, !.tgt = 1, !.n = nq + 1,
                               !.nh = Len(hist),
                               !.snap = [s \in Streams |-> LinesOf(rqueue[1][s])]])
    /\ UNCHANGED <<procvars, batchvars>>

\* The counts of a readlines: None, or 0..MaxCount.
Counts == {None} \cup {PyInt(n) : n \in 0..MaxCount}

\* Process.readlines(timeout, source, count) on process 1 begins.  A get
\* with a timeout may raise queue.Empty whenever the queue is empty: what the
\* workers do before the get is the wait.
StartReadLines(t) ==
    /\ th[t].pc = "idle"
    /\ nq < MaxCalls
    /\ nq' = nq + 1
    /\ \E s \in Streams, c \in Counts :
          Goto(t, [IdleRec EXCEPT !.pc = "rl_next", !.op = "readlines",
                                  !.ctx = "direct", !.p = 1, !.tgt = 1,
                                  !.src = s, !.block = FALSE, !.count = c,
                                  !.n = nq + 1, !.nh = Len(hist)])
    /\ UNCHANGED <<procvars, batchvars>>

\* for line in itertools.islice(iter(readline, None), count): the islice
\* ends after count items, or calls readline for the next one.
ReadLinesNext(t) ==
    LET r == th[t] IN
    /\ r.pc = "rl_next"
    /\ IF CountReached(r.acc, r.count)
       THEN LinesReturn(t, r)
       ELSE Goto(t, [r EXCEPT !.pc = "get_chk"])
    /\ UNCHANGED <<procvars, batchvars, nq>>

\* The steps of a readlines.
LinesCalls(t) ==
    \/ StartReadLines(t)
    \/ ReadLinesNext(t)
    \/ GetChk(t)
    \/ GetTake(t)
    \/ GetJoin(t)

\* Process.communicate(input=None, timeout=0.1) on process 1 begins:
\* outs = self.readlines(timeout=timeout, source='stdout', count=None)
StartCommunicate(t) ==
    /\ th[t].pc = "idle"
    /\ nq < MaxQueries
    /\ nq' = nq + 1
    /\ Goto(t, [IdleRec EXCEPT !.pc = "rl_next", !.op = "communicate",
                               !.ctx = "direct", !.p = 1, !.tgt = 1,
                               !.src = "stdout", !.block = FALSE,
                               !.n = nq + 1, !.nh = Len(hist),
                               !.deadAtStart = (child[1] # "alive")])
    /\ UNCHANGED <<procvars, batchvars>>

\* The steps of a communicate.
CommCalls(t) ==
    \/ StartCommunicate(t)
    \/ ReadLinesNext(t)
    \/ GetChk(t)
    \/ GetTake(t)
    \/ GetJoin(t)

\* ---- ProcessRunner and the git-annex runners; init_annex ----

\* The messages of git-annex on stderr that the runners look for.
NotInRepoMsg == "git-annex: Not in a git repository"
VersionMsg == "option --version:"

\* What a child prints on stderr, as a sequence of pieces of text.
StderrTexts ==
    {<<>>, <<"fatal">>, <<NotInRepoMsg>>, <<VersionMsg>>,
     <<VersionMsg, NotInRepoMsg>>}

\* What the operating system makes of a command: the working directory or
\* the program is missing (msg is the message of the FileNotFoundError, with
\* the path or plain), or the child runs and exits with rc, stdout and stderr.
Worlds ==
    {[found |-> f, msg |-> e.strerror, rc |-> 0, stdout |-> <<>>, stderr |-> <<>>] :
        f \in {"nocwd", "noprog"}, e \in SpawnErrors}
    \cup
    {[found |-> "ok", msg |-> <<>>, rc |-> c, stdout |-> o, stderr |-> e] :
        c \in {0, 1}, o \in {<<>>, <<"out">>}, e \in StderrTexts}

\* subprocess.run without check=True.
SubprocessRunUnchecked(args, cwd, w) ==
    IF w.found # "ok"
    THEN [k |-> "FileNotFoundError", strerror |-> w.msg]
    ELSE [k |-> "CompletedProcess", args |-> args, cwd |-> cwd,
          returncode |-> w.rc, stdout |-> w.stdout, stderr |-> w.stderr]

\* subprocess.run(args, stdin=PIPE, stdout=PIPE, stderr=PIPE,
\* universal_newlines=True, cwd=cwd, check=True).  cwd in the result is the
\* directory the child ran in.
SubprocessRun(args, cwd, w) ==
    IF w.found # "ok"
    THEN [k |-> "FileNotFoundError", strerror |-> w.msg]
    ELSE IF w.rc # 0
    THEN [k |-> "CalledProcessError", cmd |-> args, cwd |-> cwd,
          returncode |-> w.rc, stdout |-> w.stdout, stderr |-> w.stderr]
    ELSE [k |-> "CompletedProcess", args |-> args, cwd |-> cwd,
          returncode |-> w.rc, stdout |-> w.stdout, stderr |-> w.stderr]

\* An argument of a command: a text, as a sequence of its pieces.
Arg(s) == <<s>>

\* raise exc(msg) from err
RaiseFrom(exc, err) == [k |-> exc, cause |-> err]

\* A call that gives an argument twice, or not at all.
TypeError == [k |-> "TypeError", cause |-> None]

\* Python binds the positional arguments to the first parameters and the
\* keyword arguments by name; a parameter given both ways, or not at all, or
\* a positional argument too many, is a TypeError.
Bind(params, pos, kw) ==
    IF \/ Len(pos) > Len(params)
       \/ \E i \in 1..Len(pos) : params[i] \in DOMAIN kw
       \/ \E i \in (Len(pos) + 1)..Len(params) : params[i] \notin DOMAIN kw
    THEN TypeError
    ELSE [n \in {params[i] : i \in 1..Len(params)} |->
            IF \E i \in 1..Len(pos) : params[i] = n
            THEN pos[CHOOSE i \in 1..Len(pos) : params[i] = n]
            ELSE kw[n]]

\* ProcessRunner.__init__(self, args_prefix, workdir)
ProcessRunnerNew(pos, kw) ==
    LET b == Bind(<<"args_prefix", "workdir">>, pos, kw) IN
    IF b = TypeError THEN TypeError
    ELSE [k |-> "runner", args_prefix |-> b["args_prefix"],
          workdir |-> b["workdir"]]

\* ProcessRunner.__call__(self, *args_suffix)
ProcessRunnerCall(self, suffix, w) ==
    SubprocessRun(self.args_prefix \o suffix, self.workdir, w)

\* GitAnnexRunner.__init__: args_prefix = ('git-annex', *args_prefix)
GitAnnexRunnerNew(prefix, workdir) ==
    ProcessRunnerNew(<<<<Arg("git-annex")>> \o prefix, workdir>>, <<>>)

\* GitAnnexRunner.__call__(self, *args_suffix)
GitAnnexRunnerCall(self, suffix, w) ==
    LET res == ProcessRunnerCall(self, suffix, w) IN
    IF res.k = "FileNotFoundError"
    THEN IF Contains(<<NoSuchFile, Colon>>, res.strerror)
         THEN RaiseFrom("NotAGitRepoError", res)
         ELSE res
    ELSE IF res.k = "CalledProcessError"
    THEN IF Contains(<<NotInRepoMsg>>, res.stderr)
         THEN RaiseFrom("NotAGitRepoError", res)
         ELSE res
    ELSE res

\* str(version), for the versions of the model.
StrOf(v) == IF v.k = "int" THEN IntChars(v.v) ELSE v.txt

\* The arguments of git-annex init: the description if there is one, then
\* '--version={}'.format(version) if there is one.
InitArgs(description, version) ==
    (IF description # None THEN <<description.txt>> ELSE <<>>)
    \o (IF version # None THEN <<<<"--version=">> \o StrOf(version)>> ELSE <<>>)

\* GitAnnexInitRunner.__init__(self, workdir)
GitAnnexInitRunnerNew(workdir) == GitAnnexRunnerNew(<<Arg("init")>>, workdir)

\* GitAnnexInitRunner.__call__(self, description=None, version=None)
GitAnnexInitRunnerCall(self, description, version, w) ==
    LET res == GitAnnexRunnerCall(self, InitArgs(description, version), w) IN
    IF res.k = "CalledProcessError" /\ Contains(<<VersionMsg>>, res.stderr)
    THEN RaiseFrom("ValueError", res)
    ELSE res

\* init_annex(path, description=None, version=None)
InitAnnex(path, description, version, w) ==
    LET runner == ProcessRunnerNew(<<"git-annex", "init">>, [workdir |-> path]) IN
    IF runner = TypeError THEN TypeError
    ELSE
    LET res == ProcessRunnerCall(runner, InitArgs(description, version), w) IN
    IF res.k = "FileNotFoundError"
    THEN IF Contains(<<NoSuchFile, Colon>>, res.strerror)
         THEN RaiseFrom("NotAGitRepoError", res)
         ELSE res
    ELSE IF res.k = "CalledProcessError"
    THEN IF Contains(<<NotInRepoMsg>>, res.stderr)
         THEN RaiseFrom("NotAGitRepoError", res)
         ELSE IF Contains(<<VersionMsg>>, res.stderr)
              THEN RaiseFrom("ValueError", res)
              ELSE res
    ELSE [k |-> "GitAnnexRepo", path |-> path]

\* The arguments of the calls of the model.
Suffixes == {<<>>, <<Arg("status")>>}
Descriptions == {None, Text(Arg("desc"))}
Versions == {None, PyInt(5), Text(<<"f">>)}

\* A call ends with its result, or with its exception.
Ends(t, op, input, res) ==
    /\ th[t].pc = "idle"
    /\ nq < MaxRuns
    /\ nq' = nq + 1
    /\ DoneR(t, [IdleRec EXCEPT !.op = op, !.req = input, !.n = nq + 1,
                                !.nh = Len(hist)],
             IF res.k \in {"CompletedProcess", "GitAnnexRepo"} THEN "ok" ELSE res.k,
             res)
    /\ UNCHANGED <<procvars, batchvars>>

\* ProcessRunner(['git'], workdir)(*suffix)
RunnerCall(t) ==
    \E suffix \in Suffixes, w \in Worlds :
        Ends(t, "ProcessRunner",
             [args |-> <<Arg("git")>> \o suffix, world |-> w],
             ProcessRunnerCall(ProcessRunnerNew(<<<<Arg("git")>>>>, [workdir |-> "dir"]),
                               suffix, w))

\* GitAnnexRunner([], workdir)(*suffix)
GitAnnexCall(t) ==
    \E suffix \in Suffixes, w \in Worlds :
        Ends(t, "GitAnnexRunner",
             [args |-> <<Arg("git-annex")>> \o suffix, world |-> w],
             GitAnnexRunnerCall(GitAnnexRunnerNew(<<>>, "dir"), suffix, w))

\* GitAnnexInitRunner(workdir)(description, version)
GitAnnexInitCall(t) ==
    \E d \in Descriptions, v \in Versions, w \in Worlds :
        Ends(t, "GitAnnexInitRunner",
             [args |-> <<Arg("git-annex"), Arg("init")>> \o InitArgs(d, v), world |-> w],
             GitAnnexInitRunnerCall(GitAnnexInitRunnerNew("dir"), d, v, w))

\* init_annex(path, description, version)
InitAnnexCall(t) ==
    \E d \in Descriptions, v \in Versions, w \in Worlds :
        Ends(t, "init_annex",
             [args |-> <<Arg("git-annex"), Arg("init")>> \o InitArgs(d, v), world |-> w],
             InitAnnex("dir", d, v, w))

\* ---- AnnexedFileMetadata ----

\* A Python set, and the KeyError of a lookup.
PySet(S) == [k |-> "set", v |-> S]
KeyError == [k |-> "KeyError", cause |-> None]

\* list(value) of a set, in some order; set(values) of a list.
SetToList(S) == CHOOSE l \in [1..Cardinality(S) -> S] : {l[i] : i \in 1..Len(l)} = S
ListToSet(l) == {l[i] : i \in 1..Len(l)}

\* The name of a field is a sequence of pieces of text.  git-annex keeps
\* 'lastchanged' and, for a field f, 'f-lastchanged'.
LastChanged == <<"lastchanged">>
LastChangedOf(f) == f \o <<"-lastchanged">>

\* An __iter__ that skips nothing.
InternalNever(f) == FALSE

\* f == 'lastchanged' or f.endswith('-lastchanged')
Internal(f) == f = LastChanged \/ (Len(f) > 1 /\ f[Len(f)] = "-lastchanged")

\* A dict without items.
EmptyDict == [f \in {} |-> <<>>]

\* git-annex metadata --batch --json applies the fields of a request to the
\* metadata of the key: a field given values takes them, a field given no
\* value is removed, and the fields it keeps of itself record the change.
\* The fields of its answer are the metadata after that.
Backend(store, fields) ==
    LET touched == DOMAIN fields
        stamps == {LastChangedOf(f) : f \in touched}
                     \cup (IF touched = {} THEN {} ELSE {LastChanged})
        kept == (DOMAIN store \cup touched) \ {f \in touched : fields[f] = <<>>}
    IN [f \in kept \cup stamps |->
          IF f \in stamps THEN <<"t">>
          ELSE IF f \in touched THEN fields[f] ELSE store[f]]

\* A file whose metadata has not been read: self._cache = None.  store is the
\* metadata git-annex holds for the key; reads and writes count the calls of
\* self._process without and with fields, and resp is output['fields'] of
\* the last of them.
NewMetadata ==
    [store |-> EmptyDict, cache |-> None, reads |-> 0, writes |-> 0, resp |-> None]

\* An AnnexedFileMetadata that sends no fields.
MetadataReadOnly(m, fields) ==
    IF m.cache = None
    THEN [m EXCEPT !.cache = PyDict(m.store), !.reads = @ + 1,
                   !.resp = PyDict(m.store)]
    ELSE m

\* An AnnexedFileMetadata without a cache: it asks on every call.
MetadataNoCache(m, fields) ==
    IF fields # None /\ DOMAIN fields.v # {}
    THEN LET after == Backend(m.store, fields.v) IN
         [m EXCEPT !.store = after, !.cache = PyDict(after), !.writes = @ + 1,
                   !.resp = PyDict(after)]
    ELSE [m EXCEPT !.cache = PyDict(m.store), !.reads = @ + 1,
                   !.resp = PyDict(m.store)]

\* AnnexedFileMetadata._metadata(fields): the object after the call; what the
\* call returns is its cache.
Metadata(m, fields) ==
    IF fields # None /\ DOMAIN fields.v # {}
    THEN LET after == Backend(m.store, fields.v) IN
         [m EXCEPT !.store = after, !.cache = PyDict(after), !.writes = @ + 1,
                   !.resp = PyDict(after)]
    ELSE IF m.cache = None
         THEN [m EXCEPT !.cache = PyDict(m.store), !.reads = @ + 1,
                        !.resp = PyDict(m.store)]
         ELSE m

\* The object after a method and what the method returns or raises.
Outcome(m, result) == [state |-> m, result |-> result]

\* __getitem__(field): set(self._metadata()[field])
GetItem(m, field) ==
    LET m2 == Metadata(m, None) IN
    Outcome(m2, IF field \in DOMAIN m2.cache.v
                THEN PySet(ListToSet(m2.cache.v[field]))
                ELSE KeyError)

\* __contains__(field) of collections.abc.Mapping: try self[field], except
\* KeyError.
HasItem(m, field) ==
    LET got == GetItem(m, field) IN
    Outcome(got.state, PyBool(got.result # KeyError))

\* A __setitem__ that takes any value: list(value) of a str or a list.
SetItemAny(m, field, value) ==
    Outcome(Metadata(m, PyDict([f \in {field} |->
                                  IF value.k = "set" THEN SetToList(value.v)
                                  ELSE <<"a">>])), None)

\* __setitem__(field, value)
SetItem(m, field, value) ==
    IF value.k # "set"
    THEN Outcome(m, TypeError)
    ELSE Outcome(Metadata(m, PyDict([f \in {field} |-> SetToList(value.v)])), None)

\* __delitem__(field)
DelItem(m, field) ==
    Outcome(Metadata(m, PyDict([f \in {field} |-> <<>>])), None)

\* __iter__(): the fields of the cache that are not internal, in the order
\* of the dict.
Iter(m) ==
    LET m2 == Metadata(m, None)
        keys == SetToList(DOMAIN m2.cache.v)
    IN Outcome(m2, PyList(SelectSeq(keys, LAMBDA f : ~Internal(f))))

\* __len__(): sum(1 for _ in iter(self))
MetaLen(m) == Outcome(Iter(m).state, PyInt(Len(Iter(m).result.v)))

\* fields = args[0] if args else {}; fields.update(kwargs)
Merged(d, kw) ==
    [f \in DOMAIN d \cup DOMAIN kw |-> IF f \in DOMAIN kw THEN kw[f] ELSE d[f]]

\* update(*args, **kwargs), with one dict and keyword arguments.
Update(m, d, kw) ==
    LET fields == Merged(d, kw) IN
    IF \E f \in DOMAIN fields : fields[f].k # "set"
    THEN Outcome(m, TypeError)
    ELSE Outcome(Metadata(m, PyDict([f \in DOMAIN fields |->
                                        SetToList(fields[f].v)])), None)

\* clear(): self._metadata({f: [] for f in self})
Clear(m) ==
    LET it == Iter(m) IN
    Outcome(Metadata(it.state, PyDict([f \in ListToSet(it.result.v) |-> <<>>])),
            None)

\* The fields and the values of the model.
Fields == {<<"file">>, <<"key">>}
Sets == {PySet({}), PySet({"a"}), PySet({"a", "b"})}
Lookups == Fields \cup {LastChanged}
Dicts ==
    {EmptyDict}
    \cup {[f \in {<<"file">>} |-> S] : S \in Sets}
    \cup {[f \in Fields |-> IF f = <<"file">> THEN S ELSE PySet({"b"})] : S \in Sets}
Kwargs == {EmptyDict, [f \in {<<"key">>} |-> PySet({"a"})]}

\* The object as the calls so far have left it.
Meta == IF hist = <<>> THEN NewMetadata ELSE hist[Len(hist)].val.state

\* A method of the object ends.
MetaEnds(t, op, input, out) ==
    /\ th[t].pc = "idle"
    /\ nq < MaxOps
    /\ nq' = nq + 1
    /\ DoneR(t, [IdleRec EXCEPT !.op = op, !.req = input, !.n = nq + 1,
                                !.nh = Len(hist)],
             IF out.result.k \in {"TypeError", "KeyError"} THEN out.result.k ELSE "ok",
             out)
    /\ UNCHANGED <<procvars, batchvars>>

\* The field and the value a call is given; a call without one has None.
MetaInput(field, value) == [field |-> field, value |-> value]

MetaGet(t) ==
    \E f \in Lookups : MetaEnds(t, "getitem", MetaInput(f, None), GetItem(Meta, f))

MetaHas(t) ==
    \E f \in Lookups : MetaEnds(t, "contains", MetaInput(f, None), HasItem(Meta, f))

MetaSet(t) ==
    \E f \in Fields, S \in Sets :
        MetaEnds(t, "setitem", MetaInput(f, S), SetItem(Meta, f, S))

MetaDel(t) ==
    \E f \in Fields : MetaEnds(t, "delitem", MetaInput(f, None), DelItem(Meta, f))

MetaIter(t) == MetaEnds(t, "iter", MetaInput(None, None), Iter(Meta))

MetaLength(t) == MetaEnds(t, "len", MetaInput(None, None), MetaLen(Meta))

MetaUpdate(t) ==
    \E d \in Dicts, kw \in Kwargs :
        MetaEnds(t, "update", MetaInput(None, PyDict(Merged(d, kw))),
                 Update(Meta, d, kw))

MetaClear(t) == MetaEnds(t, "clear", MetaInput(None, None), Clear(Meta))

\* What another program sets in the metadata of the key meanwhile.
Externals == {[f \in {<<"file">>} |-> <<"x">>], [f \in {<<"file">>} |-> <<>>]}

\* Another program changes the metadata of the key: the object is not told.
MetaExternal(t) ==
    \E e \in Externals :
        MetaEnds(t, "external", MetaInput(None, PyDict(e)),
                 Outcome([Meta EXCEPT !.store = Backend(Meta.store, e)], None))

\* The steps of a check.
CheckCalls(t) ==
    \/ StartCheck(t)
    \/ Chk(t)
    \/ ChkErr(t)

\* Process.__exit__(exc_type, exc_value, traceback) on process 1 begins, at
\* the end of a with block or with an exception on its way out of it:
\* try: self.writeline(None); except BrokenPipeError: pass
StartExit(t) ==
    /\ th[t].pc = "idle"
    /\ nq < MaxQueries
    /\ nq' = nq + 1
    /\ \E exc \in BOOLEAN :
          Goto(t, [IdleRec EXCEPT !.pc = "put_chk", !.op = "exit",
                                  !.ctx = "exit", !.p = 1, !.tgt = 1,
                                  !.item = None, !.exc = exc, !.n = nq + 1,
                                  !.nh = Len(hist),
                                  !.wdead = (wthread[1] = "dead")])
    /\ UNCHANGED <<procvars, batchvars>>

\* Popen.__exit__ closes stdout, stderr and stdin.
ExitClose(t) ==
    /\ th[t].pc = "close"
    /\ Goto(t, [th[t] EXCEPT !.pc = "wait"])
    /\ UNCHANGED <<procvars, batchvars, nq>>

\* Popen.__exit__ waits for the child; __exit__ returns None, so that an
\* exception on its way out of the block goes on.
ExitWait(t) ==
    /\ th[t].pc = "wait"
    /\ child[th[t].tgt] # "alive"
    /\ Done(t, IF th[t].exc THEN "Reraised" ELSE "ok", None)
    /\ UNCHANGED <<procvars, batchvars, nq>>

\* The streams of process p have been closed by an __exit__.
Closed(p) ==
    \/ \E t \in DOMAIN th : th[t].op = "exit" /\ th[t].tgt = p /\ th[t].pc = "wait"
    \/ \E i \in 1..Len(hist) : hist[i].op = "exit" /\ hist[i].proc = p

\* A reader with no finally clause: it ends on the closed stream and puts
\* nothing.
ReaderClosedSilent(p, s) ==
    /\ Closed(p)
    /\ rthread[p][s] = "run"
    /\ rthread' = [rthread EXCEPT ![p][s] = "closing"]
    /\ UNCHANGED <<child, inpipe, rpipe, qin, rqueue, wthread, whold, putlog, written, emitted>>
    /\ UNCHANGED <<batchvars, callvars>>

\* LineReaderQueue._reader on a stream that was closed under it: readline
\* raises, and the finally clause puts the None.
ReaderClosed(p, s) ==
    /\ Closed(p)
    /\ rthread[p][s] = "run"
    /\ rqueue' = [rqueue EXCEPT ![p][s] = Append(@, None)]
    /\ rthread' = [rthread EXCEPT ![p][s] = "closing"]
    /\ UNCHANGED <<child, inpipe, rpipe, qin, wthread, whold, putlog, written, emitted>>
    /\ UNCHANGED <<batchvars, callvars>>

\* The steps of a writeline.
WriteCalls(t) ==
    \/ StartWrite(t)
    \/ PutChk(t)
    \/ PutEnq(t)
    \/ PutJoin(t)

\* The steps of a writeline or a readline, MaxQueries calls in all.
Direct(t) ==
    \/ (nq < MaxQueries /\ StartWrite(t))
    \/ StartRead(t)
    \/ PutChk(t)
    \/ PutEnq(t)
    \/ PutJoin(t)
    \/ GetChk(t)
    \/ GetTake(t)
    \/ GetJoin(t)

Query(t) ==
    \/ StartQuery(t)
    \/ Prop(t)
    \/ Spawn(t)
    \/ Chk(t)
    \/ ChkErr(t)
    \/ IfProc(t)
    \/ Drain(t)
    \/ InstallDead(t)
    \/ InstallCur(t)
    \/ PutChk(t)
    \/ PutEnq(t)
    \/ PutJoin(t)
    \/ GetChk(t)
    \/ GetTake(t)
    \/ GetJoin(t)

----------------------------------------------------------------------------
(* Specifications.                                                          *)

Threads == {1, 2}

\* A GitAnnexBatchProcess after __init__: no process yet.
Init ==
    /\ child = [p \in Procs |-> "none"]
    /\ inpipe = [p \in Procs |-> <<>>]
    /\ rpipe = [p \in Procs |-> [s \in Streams |-> <<>>]]
    /\ qin = [p \in Procs |-> <<>>]
    /\ rqueue = [p \in Procs |-> [s \in Streams |-> <<>>]]
    /\ wthread = [p \in Procs |-> "idle"]
    /\ whold = [p \in Procs |-> None]
    /\ rthread = [p \in Procs |-> [s \in Streams |-> "run"]]
    /\ cur = 0
    /\ dead = 0
    /\ nprocs = 0
    /\ th = [t \in Threads |-> IdleRec]
    /\ hist = <<>>
    /\ putlog = [p \in Procs |-> <<>>]
    /\ written = [p \in Procs |-> <<>>]
    /\ emitted = [p \in Procs |-> [s \in Streams |-> <<>>]]
    /\ nq = 0

\* One thread calls the GitAnnexBatchProcess, one query at a time.  The
\* stderr readers are left out: they touch rqueue[p]["stderr"] alone, and
\* here no child prints on stderr.
Next == Workers \/ Exits \/ Query(1)

Spec == Init /\ [][Next]_vars

\* The same caller with a child that prints any line for a request; the
\* first MaxKills children to exit do.
NextAny ==
    \/ \E p \in Procs \cap Referenced :
          \/ WriterGet(p)
          \/ WriterPut(p)
          \/ ReaderRead(p, "stdout")
          \/ ReaderExit(p, "stdout")
          \/ ChildRespondAny(p)
          \/ ChildEOF(p)
    \/ Kills
    \/ Query(1)

SpecAny == Init /\ [][NextAny]_vars

\* The first MaxKills children to exit: a child that is not yet the current
\* process with or without a line on stderr, the current process without.
ErrKills ==
    /\ Cardinality({p \in Procs : child[p] \in {"exit0", "exitErr"}}) < MaxKills
    /\ \E p \in Procs \cap Referenced :
          ChildExit(p, IF p = cur THEN {<<>>} ELSE {<<>>, <<NotRepoLine>>})

\* The stderr reader of a process that is not yet the current one.
NewErrWorkers ==
    \E p \in (Procs \cap Referenced) \ {cur} :
        \/ ReaderRead(p, "stderr")
        \/ ReaderExit(p, "stderr")

\* The same caller with a Popen that may raise and children that may exit
\* with a line on stderr.
NextSpawn ==
    \/ Workers
    \/ NewErrWorkers
    \/ ErrKills
    \/ Query(1)
    \/ SpawnRaises(1)

SpecSpawn == Init /\ [][NextSpawn]_vars

\* Two threads call the same GitAnnexBatchProcess with no lock around it.
NextConc == Workers \/ Kills \/ \E t \in Threads : Query(t)

SpecConc == Init /\ [][NextConc]_vars

\* The callers hold one mutex of their own around every query: a thread
\* makes a step of a query only while no other thread is inside one.
LockFree(t) == \A u \in Threads \ {t} : th[u].pc = "idle"

LockedQuery(t) == LockFree(t) /\ Query(t)

\* Two threads call the same GitAnnexBatchProcess under that mutex; the
\* first MaxKills children to exit do.
NextLocked == Workers \/ Kills \/ \E t \in Threads : LockedQuery(t)

SpecLocked == Init /\ [][NextLocked]_vars

\* A Process after __init__: the child runs, the three workers are started.
\* cur = 1 stands for the caller's reference to it.
InitProc ==
    /\ child = [p \in Procs |-> IF p = 1 THEN "alive" ELSE "none"]
    /\ inpipe = [p \in Procs |-> <<>>]
    /\ rpipe = [p \in Procs |-> [s \in Streams |-> <<>>]]
    /\ qin = [p \in Procs |-> <<>>]
    /\ rqueue = [p \in Procs |-> [s \in Streams |-> <<>>]]
    /\ wthread = [p \in Procs |-> "idle"]
    /\ whold = [p \in Procs |-> None]
    /\ rthread = [p \in Procs |-> [s \in Streams |-> "run"]]
    /\ cur = 1
    /\ dead = 0
    /\ nprocs = 1
    /\ th = [t \in Threads |-> IdleRec]
    /\ hist = <<>>
    /\ putlog = [p \in Procs |-> <<>>]
    /\ written = [p \in Procs |-> <<>>]
    /\ emitted = [p \in Procs |-> [s \in Streams |-> <<>>]]
    /\ nq = 0

\* Two threads use one Process through writeline and readline.
NextProc == Workers \/ ErrWorkers \/ ErrExits \/ \E t \in Threads : Direct(t)

SpecProc == InitProc /\ [][NextProc]_vars

\* One thread uses one Process through writeline and readline.
NextRead == Workers \/ ErrWorkers \/ ErrExits \/ Direct(1)

SpecRead == InitProc /\ [][NextRead]_vars

\* One thread uses one Process through writeline and check.
NextCheck ==
    \/ Workers
    \/ ErrWorkers
    \/ ErrExits
    \/ WriteCalls(1)
    \/ CheckCalls(1)

SpecCheck == InitProc /\ [][NextCheck]_vars

\* One thread uses one Process through writeline and readlines.
NextCount ==
    \/ Workers
    \/ Kills
    \/ WriteCalls(1)
    \/ LinesCalls(1)

SpecCount == InitProc /\ [][NextCount]_vars

\* The two readers of process 1.
Readers == \E s \in Streams : ReaderRead(1, s) \/ ReaderExit(1, s)

\* One thread calls communicate on a Process whose child prints its lines and
\* exits.
NextComm ==
    \/ Readers
    \/ ChildPrint(1)
    \/ ChildExit(1, {<<>>})
    \/ CommCalls(1)

SpecComm == InitProc /\ [][NextComm]_vars

\* One thread runs one-shot commands.
NextRun ==
    \/ RunnerCall(1)
    \/ GitAnnexCall(1)
    \/ GitAnnexInitCall(1)
    \/ InitAnnexCall(1)

SpecRun == Init /\ [][NextRun]_vars

\* One thread uses the metadata of one file.
NextMeta ==
    \/ MetaGet(1)
    \/ MetaHas(1)
    \/ MetaSet(1)
    \/ MetaDel(1)
    \/ MetaIter(1)
    \/ MetaLength(1)
    \/ MetaUpdate(1)
    \/ MetaClear(1)

SpecMeta == Init /\ [][NextMeta]_vars

\* The same, with another program that changes the metadata of the key.
NextMetaExt == NextMeta \/ MetaExternal(1)

SpecMetaExt == Init /\ [][NextMetaExt]_vars

\* Process.readline(timeout, source) on either stream of a child that prints
\* by itself, MaxCalls calls in all; timeout is 0 or None.
StartReadAny(t) ==
    /\ th[t].pc = "idle"
    /\ nq < MaxCalls
    /\ nq' = nq + 1
    /\ \E s \in Streams, b \in BOOLEAN :
          Goto(t, [IdleRec EXCEPT !.pc = "get_chk", !.op = "readline",
                                  !.ctx = "direct", !.p = 1, !.tgt = 1,
                                  !.src = s, !.block = b, !.n = nq + 1,
                                  !.nh = Len(hist)])
    /\ UNCHANGED <<procvars, batchvars>>

\* The steps of such a readline.
ReadCalls(t) ==
    \/ StartReadAny(t)
    \/ GetChk(t)
    \/ GetTake(t)
    \/ GetJoin(t)

\* One thread reads the lines of a Process whose child prints its lines and
\* exits.
NextDrain ==
    \/ Readers
    \/ ChildPrint(1)
    \/ ChildExit(1, {<<>>})
    \/ ReadCalls(1)

SpecDrain == InitProc /\ [][NextDrain]_vars

\* The steps of a readline(timeout=0) or a readlines(count=None) of stdout,
\* or of a check, MaxQueries calls in all.
SurfaceCalls(t) ==
    \/ /\ nq < MaxQueries
       /\ StartReadAny(t)
       /\ ~th'[t].block /\ th'[t].src = "stdout"
    \/ /\ nq < MaxQueries
       /\ StartReadLines(t)
       /\ th'[t].count = None /\ th'[t].src = "stdout"
    \/ (nq < MaxQueries /\ StartCheck(t))
    \/ ReadLinesNext(t)
    \/ GetChk(t)
    \/ GetTake(t)
    \/ GetJoin(t)
    \/ Chk(t)
    \/ ChkErr(t)

\* One thread reads and checks a Process whose child prints its lines and
\* exits.
NextSurface ==
    \/ Readers
    \/ ChildPrint(1)
    \/ ChildExit(1, {<<>>})
    \/ SurfaceCalls(1)

SpecSurface == InitProc /\ [][NextSurface]_vars

\* Values that are not sets: a list and a str.
NonSets == {PyList(<<"a">>), Text(<<"a">>)}

\* Dicts and keyword arguments with a value that is not a set.
BadDicts ==
    {[f \in {<<"file">>} |-> v] : v \in NonSets}
    \cup {[f \in Fields |-> IF f = <<"file">> THEN PySet({"a"}) ELSE v] : v \in NonSets}
BadKwargs == {[f \in {<<"key">>} |-> v] : v \in NonSets}

\* metadata[f] = v with a v that is not a set.
MetaSetBad(t) ==
    \E f \in Fields, v \in NonSets :
        MetaEnds(t, "setitem", MetaInput(f, v), SetItem(Meta, f, v))

\* update(d, **kw) with a value that is not a set in d or in kw.
MetaUpdateBad(t) ==
    \E d \in {EmptyDict} \cup BadDicts, kw \in Kwargs \cup BadKwargs :
        /\ (d \in BadDicts /\ kw \in Kwargs) \/ (d = EmptyDict /\ kw \in BadKwargs)
        /\ MetaEnds(t, "update", MetaInput(None, PyDict(Merged(d, kw))),
                    Update(Meta, d, kw))

\* One thread assigns to the metadata of one file and looks fields up, with
\* values of any type.
NextMetaBad ==
    \/ MetaGet(1)
    \/ MetaSet(1)
    \/ MetaSetBad(1)
    \/ MetaUpdateBad(1)

SpecMetaBad == Init /\ [][NextMetaBad]_vars

\* ---- The legacy adapter: GitAnnexMetadata over BatchProcess ----

\* What the metadata batch process makes of a request: it applies it and
\* answers with the new fields, or applies it and answers with the fields as
\* they were, or does neither.
BatchWorlds == {"good", "stale", "lost"}

\* A GitAnnexMetadata after __init__ (fields_cache = None), with the metadata
\* git-annex holds for its key, the requests sent and the calls of restart.
NewGitAnnexMetadata == [store |-> EmptyDict, cache |-> None, sent |-> 0, restarts |-> 0]

\* BatchProcess.__call__(key=..., fields=...): one request line, one answer.
BatchProcessCall(m, fields, w) ==
    LET after == Backend(m.store, fields) IN
    [state |-> [m EXCEPT !.store = IF w = "lost" THEN m.store ELSE after,
                         !.sent = @ + 1],
     answer |-> IF w = "good" THEN after ELSE m.store]

\* BatchProcess.restart()
BatchProcessRestart(m) == [m EXCEPT !.restarts = @ + 1]

\* set(new_fields.get(field, [])) != set(value) for some field given.
Mismatch(new_fields, fields) ==
    \E f \in DOMAIN fields :
        ListToSet(IF f \in DOMAIN new_fields THEN new_fields[f] ELSE <<>>)
           # ListToSet(fields[f])

\* A fields() that takes the first answer as it is.
GitAnnexMetadataFieldsOnce(m, fields, w1, w2) ==
    IF m.cache # None /\ DOMAIN m.cache.v # {} /\ DOMAIN fields = {}
    THEN Outcome(m, m.cache)
    ELSE LET q1 == BatchProcessCall(m, fields, w1) IN
         Outcome([q1.state EXCEPT !.cache = PyDict(q1.answer)], PyDict(q1.answer))

\* GitAnnexMetadata.fields(**fields); w1 and w2 are what the batch process
\* makes of the first and of the second request.
GitAnnexMetadataFields(m, fields, w1, w2) ==
    IF m.cache # None /\ DOMAIN m.cache.v # {} /\ DOMAIN fields = {}
    THEN Outcome(m, m.cache)
    ELSE LET q1 == BatchProcessCall(m, fields, w1) IN
         IF ~Mismatch(q1.answer, fields)
         THEN Outcome([q1.state EXCEPT !.cache = PyDict(q1.answer)], PyDict(q1.answer))
         ELSE LET q2 == BatchProcessCall(BatchProcessRestart(q1.state), fields, w2) IN
              IF Mismatch(q2.answer, fields)
              THEN Outcome([q2.state EXCEPT !.cache = None], KeyError)
              ELSE Outcome([q2.state EXCEPT !.cache = PyDict(q2.answer)],
                           PyDict(q2.answer))

\* GitAnnexMetadata.__setitem__(meta_key, value)
LegacySetItem(m, meta_key, value, w1, w2) ==
    IF meta_key \notin {<<"key">>, <<"file">>}
    THEN LET out == GitAnnexMetadataFields(m, [f \in {meta_key} |-> value], w1, w2) IN
         Outcome(out.state, IF out.result = KeyError THEN KeyError ELSE None)
    ELSE Outcome(m, None)

\* GitAnnexMetadata.__getitem__(meta_key), for a field that is not 'key' or
\* 'file': self.fields().get(meta_key, [])
LegacyGetItem(m, meta_key, w1, w2) ==
    LET out == GitAnnexMetadataFields(m, EmptyDict, w1, w2) IN
    Outcome(out.state,
            IF out.result = KeyError THEN KeyError
            ELSE PyList(IF meta_key \in DOMAIN out.result.v
                        THEN out.result.v[meta_key] ELSE <<>>))

\* The field and the values of the repeated assignments.
LegacyField == <<"test">>
LegacyValues == {<<>>, <<"a">>, <<"b">>}

\* The object as the calls so far have left it.
LegacyMeta == IF hist = <<>> THEN NewGitAnnexMetadata ELSE hist[Len(hist)].val.state

\* meta[field] = value
LegacySet(t) ==
    \E v \in LegacyValues, w1 \in BatchWorlds, w2 \in BatchWorlds :
        MetaEnds(t, "legacy_set",
                 [field |-> LegacyField, value |-> v, w1 |-> w1, w2 |-> w2],
                 LegacySetItem(LegacyMeta, LegacyField, v, w1, w2))

\* meta[field]
LegacyGet(t) ==
    \E w1 \in BatchWorlds :
        MetaEnds(t, "legacy_get",
                 [field |-> LegacyField, value |-> <<>>, w1 |-> w1, w2 |-> w1],
                 LegacyGetItem(LegacyMeta, LegacyField, w1, w1))

\* One thread assigns to a field of the legacy metadata of a key and reads
\* it back.
NextLegacy == LegacySet(1) \/ LegacyGet(1)

SpecLegacy == Init /\ [][NextLegacy]_vars

\* The steps of a writeline or an __exit__, MaxQueries calls in all.
ExitCalls(t) ==
    \/ (nq < MaxQueries /\ StartWrite(t))
    \/ PutChk(t)
    \/ PutEnq(t)
    \/ PutJoin(t)
    \/ StartExit(t)
    \/ ExitClose(t)
    \/ ExitWait(t)

\* Two threads use one Process through writeline and leave its with block;
\* the child prints nothing on stderr.
NextExit ==
    \/ Workers
    \/ Exits
    \/ ReaderClosed(1, "stdout")
    \/ \E t \in Threads : ExitCalls(t)

SpecExit == InitProc /\ [][NextExit]_vars

\* Two threads use one Process through writeline alone, MaxCalls calls in
\* all; the child prints nothing on stderr.
NextWrite == Workers \/ Exits \/ \E t \in Threads : WriteCalls(t)

SpecWrite == InitProc /\ [][NextWrite]_vars

\* The items a dead process can have left in its outbound queue when no call
\* is in progress: lines put while the writer worker was busy or after the
\* child died, and behind them at most the None of the last writeline(None),
\* whose join has returned, so that the worker has ended.  The lines were
\* submitted before this behaviour begins: the i-th has the id -i.
Leftovers ==
    {q \in UNION {[1..n -> {None} \cup {Req(0 - i) : i \in 1..MaxLeft}] :
                      n \in 0..MaxLeft} :
        \A i \in 1..Len(q) : q[i] = Req(0 - i) \/ (q[i] = None /\ i = Len(q))}

\* A GitAnnexBatchProcess whose process 1 has exited with items left in its
\* outbound queue; its writer worker has ended or has not run since.  The
\* calls that left the items are over: this behaviour holds the next call.
InitRestart ==
    /\ \E rc \in {"exit0", "exitErr"} :
          child = [p \in Procs |-> IF p = 1 THEN rc ELSE "none"]
    /\ inpipe = [p \in Procs |-> <<>>]
    /\ rpipe = [p \in Procs |-> [s \in Streams |-> <<>>]]
    /\ \E q \in Leftovers :
       \E w \in {"idle", "dead"} :
          /\ NonePos(q) # 0 => w = "dead"
          /\ qin = [p \in Procs |-> IF p = 1 THEN q ELSE <<>>]
          /\ putlog = [p \in Procs |-> IF p = 1 THEN q ELSE <<>>]
          /\ wthread = [p \in Procs |-> IF p = 1 THEN w ELSE "idle"]
    /\ rqueue = [p \in Procs |-> [s \in Streams |-> <<>>]]
    /\ whold = [p \in Procs |-> None]
    /\ rthread = [p \in Procs |-> [s \in Streams |-> "run"]]
    /\ cur = 1
    /\ dead = 0
    /\ nprocs = 1
    /\ th = [t \in Threads |-> IdleRec]
    /\ hist = <<>>
    /\ written = [p \in Procs |-> <<>>]
    /\ emitted = [p \in Procs |-> [s \in Streams |-> <<>>]]
    /\ nq = MaxQueries - 1

SpecRestart == InitRestart /\ [][Next]_vars

----------------------------------------------------------------------------
(* The pipes character by character: what print, readline and rstrip do to  *)
(* a line.                                                                  *)

Chars == {"a", NL}

\* The lines a caller writes: they hold no newline.
TextLines == {Text(s) : s \in UNION {[1..n -> Chars \ {NL}] : n \in 0..MaxLineLen}}

\* A reader that puts the line as readline returned it.
RStripNothing(s) == s

\* str.rstrip('\n'): the string without the newlines at its end.
RECURSIVE RStrip(_)
RStrip(s) ==
    IF s # <<>> /\ s[Len(s)] = NL THEN RStrip(SubSeq(s, 1, Len(s) - 1)) ELSE s

\* print(line, file=self.dest, flush=True): the line and one newline.
PrintChars(line) == line.txt \o <<NL>>

\* The place of the first newline of buf, 0 when it holds none.
FirstNL(buf) ==
    IF \E i \in 1..Len(buf) : buf[i] = NL
    THEN CHOOSE i \in 1..Len(buf) : buf[i] = NL /\ \A j \in 1..(i - 1) : buf[j] # NL
    ELSE 0

\* LineWriterQueue._writer, the body of the loop, on a pipe of characters.
WriterPrint(p) ==
    /\ Spawned(p)
    /\ wthread[p] = "hold"
    /\ whold' = [whold EXCEPT ![p] = None]
    /\ IF whold[p] # None /\ child[p] = "alive"
       THEN /\ inpipe' = [inpipe EXCEPT ![p] = @ \o PrintChars(whold[p])]
            /\ written' = [written EXCEPT ![p] = Append(written[p], whold[p])]
            /\ wthread' = [wthread EXCEPT ![p] = "idle"]
       ELSE /\ wthread' = [wthread EXCEPT ![p] = "dead"]
            /\ UNCHANGED <<inpipe, written>>
    /\ UNCHANGED <<child, rpipe, qin, rqueue, rthread, putlog, emitted>>
    /\ UNCHANGED <<batchvars, callvars>>

\* LineReaderQueue._reader on a pipe of characters: self.src.readline()
\* returns the characters up to and with the first newline, at end of file
\* what is left, and '' when nothing is left, which ends the loop.
ReaderReadline(p, s) ==
    LET buf == rpipe[p][s]
        n == FirstNL(buf)
    IN
    /\ Spawned(p)
    /\ rthread[p][s] = "run"
    /\ IF n # 0
       THEN /\ rqueue' = [rqueue EXCEPT ![p][s] =
                             Append(@, Text(RStrip(SubSeq(buf, 1, n))))]
            /\ rpipe' = [rpipe EXCEPT ![p][s] = SubSeq(buf, n + 1, Len(buf))]
            /\ UNCHANGED rthread
       ELSE /\ child[p] # "alive"
            /\ IF buf # <<>>
               THEN /\ rqueue' = [rqueue EXCEPT ![p][s] = Append(@, Text(RStrip(buf)))]
                    /\ rpipe' = [rpipe EXCEPT ![p][s] = <<>>]
                    /\ UNCHANGED rthread
               ELSE /\ rqueue' = [rqueue EXCEPT ![p][s] = Append(@, None)]
                    /\ rthread' = [rthread EXCEPT ![p][s] = "closing"]
                    /\ UNCHANGED rpipe
    /\ UNCHANGED <<child, inpipe, qin, wthread, whold, putlog, written, emitted>>
    /\ UNCHANGED <<batchvars, callvars>>

\* The child is cat: it copies its stdin to its stdout, in pieces of any
\* size.
CatEcho(p) ==
    /\ child[p] = "alive"
    /\ inpipe[p] # <<>>
    /\ rpipe' = [rpipe EXCEPT ![p]["stdout"] = Append(@, Head(inpipe[p]))]
    /\ emitted' = [emitted EXCEPT ![p]["stdout"] = Append(@, Head(inpipe[p]))]
    /\ inpipe' = [inpipe EXCEPT ![p] = Tail(inpipe[p])]
    /\ UNCHANGED <<child, qin, rqueue, wthread, whold, rthread, putlog, written>>
    /\ UNCHANGED <<batchvars, callvars>>

\* A child prints a character on its stderr.
ChildEmitErr(p) ==
    /\ child[p] = "alive"
    /\ Len(emitted[p]["stderr"]) < MaxChars
    /\ \E c \in Chars :
          /\ rpipe' = [rpipe EXCEPT ![p]["stderr"] = Append(@, c)]
          /\ emitted' = [emitted EXCEPT ![p]["stderr"] = Append(@, c)]
    /\ UNCHANGED <<child, inpipe, qin, rqueue, wthread, whold, rthread, putlog, written>>
    /\ UNCHANGED <<batchvars, callvars>>

\* Process.writeline(item) on process 1 begins, with a line of text or None.
StartWriteText(t) ==
    /\ th[t].pc = "idle"
    /\ nq < MaxCalls
    /\ nq' = nq + 1
    /\ \E item \in TextLines \cup {None} :
          Goto(t, [IdleRec EXCEPT !.pc = "put_chk", !.op = "writeline",
                                  !.ctx = "direct", !.p = 1, !.tgt = 1,
                                  !.req = item, !.item = item, !.n = nq + 1,
                                  !.nh = Len(hist),
                                  !.wdead = (wthread[1] = "dead")])
    /\ UNCHANGED <<procvars, batchvars>>

TextCalls(t) ==
    \/ StartWriteText(t)
    \/ PutChk(t)
    \/ PutEnq(t)
    \/ PutJoin(t)

\* One thread writes lines of text to a Process whose child is cat; the cat
\* runs until the end of its input and prints what it likes on stderr.
NextLines ==
    \/ WriterGet(1)
    \/ WriterPrint(1)
    \/ CatEcho(1)
    \/ ChildEmitErr(1)
    \/ ChildEOF(1)
    \/ \E s \in Streams : ReaderReadline(1, s) \/ ReaderExit(1, s)
    \/ TextCalls(1)

SpecLines == InitProc /\ [][NextLines]_vars

\* The objects a caller hands to writejson: an int, a bool, a str with a
\* newline, the str 'null', a list, a tuple, and dicts with a str key, with
\* an int key and with no key.
JsonObjs ==
    {PyInt(1), PyBool(TRUE), Text(<<"a", NL>>), Text(NullChars),
     PyList(<<None, PyInt(1)>>), PyTuple(<<PyInt(1)>>),
     PyDict([x \in {Text(<<"k">>)} |-> None]),
     PyDict([x \in {PyInt(1)} |-> PyInt(1)]),
     PyDict(<<>>)}

\* JsonProcess.writejson(obj) on process 1 begins.
StartWriteJson(t) ==
    /\ th[t].pc = "idle"
    /\ nq < MaxQueries
    /\ nq' = nq + 1
    /\ \E obj \in JsonObjs \cup {None} :
          Goto(t, [IdleRec EXCEPT !.pc = "put_chk", !.op = "writejson",
                                  !.ctx = "direct", !.p = 1, !.tgt = 1,
                                  !.req = obj, !.item = WriteJson(obj),
                                  !.n = nq + 1, !.nh = Len(hist),
                                  !.wdead = (wthread[1] = "dead")])
    /\ UNCHANGED <<procvars, batchvars>>

\* Process.writeline('null') on process 1 begins: the cat will print the
\* line null.
StartWriteNull(t) ==
    /\ th[t].pc = "idle"
    /\ nq < MaxQueries
    /\ nq' = nq + 1
    /\ Goto(t, [IdleRec EXCEPT !.pc = "put_chk", !.op = "writeline",
                               !.ctx = "direct", !.p = 1, !.tgt = 1,
                               !.req = Text(NullChars), !.item = Text(NullChars),
                               !.n = nq + 1, !.nh = Len(hist),
                               !.wdead = (wthread[1] = "dead")])
    /\ UNCHANGED <<procvars, batchvars>>

\* JsonProcess.readjson(timeout) on process 1 begins, on stdout, with
\* timeout=None (as in JsonProcess.__call__) or timeout=0.
StartReadJson(t) ==
    /\ th[t].pc = "idle"
    /\ nq < MaxQueries
    /\ nq' = nq + 1
    /\ \E b \in BOOLEAN :
          Goto(t, [IdleRec EXCEPT !.pc = "get_chk", !.op = "readjson",
                                  !.ctx = "direct", !.p = 1, !.tgt = 1,
                                  !.src = "stdout", !.block = b, !.n = nq + 1,
                                  !.nh = Len(hist)])
    /\ UNCHANGED <<procvars, batchvars>>

JsonCalls(t) ==
    \/ StartWriteJson(t)
    \/ StartWriteNull(t)
    \/ StartReadJson(t)
    \/ PutChk(t)
    \/ PutEnq(t)
    \/ PutJoin(t)
    \/ GetChk(t)
    \/ GetTake(t)
    \/ GetJoin(t)

\* One thread uses a JsonProcess whose child is cat.
NextJson ==
    \/ WriterGet(1)
    \/ WriterPrint(1)
    \/ CatEcho(1)
    \/ ChildEOF(1)
    \/ ReaderReadline(1, "stdout")
    \/ ReaderExit(1, "stdout")
    \/ JsonCalls(1)

SpecJson == InitProc /\ [][NextJson]_vars

----------------------------------------------------------------------------
(* Properties.                                                              *)

Range(q) == {q[i] : i \in 1..Len(q)}
Live == {p \in Procs : child[p] = "alive"}
Exited == {p \in Procs : child[p] \in {"exit0", "exitErr"}}
Queries == {i \in 1..Len(hist) : hist[i].op = "query"}
Returned(h, v) == h.kind = "ok" /\ h.val = v

\* C1: one caller, one query at a time, and no child has exited.  Every query
\* that reached a process has returned, and returned the child's answer to
\* its own request; the i-th query to return is the i-th that was issued: no
\* answer is skipped, repeated or out of order.
C1_InOrderResponses ==
    Exited = {} =>
        \A i \in Queries :
            /\ hist[i].n = i
            /\ hist[i].proc # 0 =>
                  /\ hist[i].req # None
                  /\ Returned(hist[i], Resp(hist[i].req))

\* Two queries have been answered by one and the same running child.
C1_Witness ==
    /\ Exited = {}
    /\ Len(hist) >= 2
    /\ \A i \in {1, 2} :
          /\ hist[i].op = "query" /\ hist[i].proc = 1
          /\ Returned(hist[i], Resp(Req(i)))

\* C2: a query that starts when the child of the current process has exited
\* never uses that process: it sends its request to a fresh one, and when
\* that one is still running at the end, the query returned its answer to the
\* request; an error of the query is an error of the new process.  Answers
\* that earlier queries returned stay what they were.  The earlier death is
\* no dead end: as long as such a query is in progress some step of the
\* caller, a worker or a child is possible (the bound on processes aside).
C2_RestartTransparent ==
    /\ \A i \in Queries :
          hist[i].deadAtStart =>
             /\ hist[i].proc # hist[i].oldcur
             /\ hist[i].proc # 0 => hist[i].proc > hist[i].oldcur
             /\ hist[i].aliveEnd => Returned(hist[i], Resp(hist[i].req))
             /\ hist[i].kind # "ok" => ~hist[i].aliveEnd
    /\ (th[1].op = "query" /\ th[1].deadAtStart
          /\ ~(th[1].pc = "spawn" /\ nprocs = MaxProcs)) => ENABLED Next

\* C3: a query whose check() found its child exited with a non-zero status
\* raises CalledProcessError, whatever the state of the stdin writer worker.
C3_NonZeroExitRaisesCalledProcessError ==
    \A i \in Queries :
        (hist[i].proc # 0 /\ hist[i].rc = "exitErr") =>
            hist[i].kind = "CalledProcessError"

\* C4: once a readline on a stream has returned None, every readline on that
\* stream that starts later returns None too, blocking or not.
C4_ExhaustedStaysNone ==
    \A i \in 1..Len(hist), j \in 1..Len(hist) :
        (/\ hist[i].op = "readline" /\ hist[j].op = "readline"
         /\ hist[i].src = hist[j].src
         /\ hist[j].nh >= i
         /\ Returned(hist[i], None)) => Returned(hist[j], None)

\* C5: a writeline that starts after the stdin writer worker has ended raises
\* BrokenPipeError, with a line as with None; it has put nothing into the
\* queue, and it is never waiting: its next step is the test that raises.
C5_DeadWriterRaises ==
    /\ \A i \in 1..Len(hist) :
          (hist[i].op = "writeline" /\ hist[i].wdead) =>
              hist[i].kind = "BrokenPipeError" /\ ~hist[i].enq
    /\ \A t \in Threads :
          (th[t].op = "writeline" /\ th[t].wdead) =>
              /\ th[t].pc = "put_chk" /\ ~th[t].enq
              /\ ENABLED PutChk(t)

\* The worker has ended on a None; a writeline of a line and a writeline of
\* None that started afterwards have both raised.
C5_Witness ==
    \E i \in 1..Len(hist), j \in 1..Len(hist) :
        /\ hist[i].op = "writeline" /\ hist[i].wdead /\ hist[i].req = None
        /\ hist[i].kind = "BrokenPipeError"
        /\ hist[j].op = "writeline" /\ hist[j].wdead /\ hist[j].req # None
        /\ hist[j].kind = "BrokenPipeError"

\* C6: one caller.  At most one child is running; a running child belongs to
\* the current process or to the process the call in progress is about to
\* install, which it does only when there is no current process or the
\* child of the current process has exited; the process a restart retired
\* has exited.
C6_AtMostOneLiveChild ==
    /\ Cardinality(Live) <= 1
    /\ \A p \in Live :
          \/ p = cur
          \/ /\ p = th[1].np
             /\ th[1].pc \in {"chk", "ifproc", "drain", "put_chk", "put_enq",
                              "install_dead", "install_cur"}
             /\ (cur = 0 \/ child[cur] # "alive")
    /\ dead # 0 => child[dead] # "alive"

\* A restart has retired a process and its successor is running.
C6_Witness ==
    /\ dead # 0 /\ cur # 0 /\ cur # dead
    /\ child[cur] = "alive"

\* C7: two threads.  As long as no child has exited at most one process has
\* been started, and at any time at most one child is running.
C7_OneChildForConcurrentQueries ==
    /\ Exited = {} => nprocs <= 1
    /\ Cardinality(Live) <= 1

\* C8: two threads, no child has exited.  A line whose writeline returned is
\* not in the queue of a writer worker that has ended.
C8_AcceptedLineNotStranded ==
    (Exited = {} /\ wthread[1] = "dead") =>
        \A i \in 1..Len(hist) :
            (hist[i].op = "writeline" /\ hist[i].req # None
                /\ Returned(hist[i], None)) =>
               hist[i].req \notin Range(qin[1])

\* The restart of the call in progress has read the queue of the old
\* process and has put what it read on the new one.
ReplayDone(r) ==
    /\ r.dp # 0
    /\ \/ r.pc \in {"install_dead", "install_cur"}
       \/ r.ctx \in {"req", "query", "handler", "final"}

\* The place of a line in a queue of distinct lines.
PlaceIn(q, l) == CHOOSE i \in 1..Len(q) : q[i] = l

\* C9: after the restart of a call, the lines it read from the queue of the
\* dead process are the first items of the queue history of the successor,
\* in the order they had in the old queue; whatever was put after them is the
\* request of the call or a None of the same call.  No line is left in the
\* old queue, and the lines read are all its lines except one that the old
\* writer worker took in the meantime.
C9_ReplayInOrderBeforeRequest ==
    LET r == th[1]
        old == LinesOf(putlog[r.dp])
        new == putlog[r.np]
    IN
    ReplayDone(r) =>
        /\ Len(new) >= Len(r.acc)
        /\ SubSeq(new, 1, Len(r.acc)) = r.acc
        /\ \A i \in (Len(r.acc) + 1)..Len(new) : new[i] \in {r.req, None}
        /\ Range(r.acc) \subseteq Range(old)
        /\ \A i \in 1..Len(r.acc), j \in 1..Len(r.acc) :
              i < j => PlaceIn(old, r.acc[i]) < PlaceIn(old, r.acc[j])
        /\ Range(qin[r.dp]) \cap Range(old) = {}
        /\ Len(r.acc) >= Len(old) - 1
        /\ wthread[r.dp] = "idle" => r.acc = old

\* Two lines were left; both are on the successor, in their order, and the
\* request of the call is behind them.
C9_Witness ==
    LET r == th[1] IN
    /\ ReplayDone(r)
    /\ r.acc = <<Req(0 - 1), Req(0 - 2)>>
    /\ r.req # None
    /\ putlog[r.np] = <<Req(0 - 1), Req(0 - 2), r.req>>

\* C10: after a restart, every line that was accepted into the outbound queue
\* of the retired process and was not written to its stdin is in the queue
\* history of its successor, or the call that submitted it raised.
C10_NoSilentDrop ==
    (dead # 0 /\ cur # 0 /\ cur # dead) =>
        \A l \in Range(putlog[dead]) :
            (l # None /\ l \notin Range(written[dead])) =>
                \/ l \in Range(putlog[cur])
                \/ \E i \in 1..Len(hist) : hist[i].req = l /\ hist[i].kind # "ok"


\* How often l is in q.
Count(q, l) == Cardinality({i \in 1..Len(q) : q[i] = l})

\* The lines submitted so far.
Lines == UNION {Range(putlog[p]) : p \in Procs} \ {None}

\* The lines a restart in progress took from the old queue and has not yet
\* put on the new one.
Pending(r) ==
    IF r.pc = "drain" THEN r.acc
    ELSE IF r.ctx = "replay" /\ r.pc \in {"put_chk", "put_enq"}
         THEN SubSeq(r.acc, r.k, Len(r.acc))
         ELSE <<>>

\* The sum of f over the processes 1..n.
RECURSIVE SumTo(_, _)
SumTo(f, n) == IF n = 0 THEN 0 ELSE f[n] + SumTo(f, n - 1)

\* The places a line is at: written to a stdin, held by a writer worker, in
\* an outbound queue, or on its way from the old queue to the new one.
Wired(l) == SumTo([p \in Procs |-> Count(written[p], l)], MaxProcs)
Held(l) == Cardinality({p \in Procs : wthread[p] = "hold" /\ whold[p] = l})
Queued(l) == SumTo([p \in Procs |-> Count(qin[p], l)], MaxProcs)

\* C11: one caller.  Every submitted line has been written at most once, all
\* stdins taken together; a line that a writer worker has dequeued (it holds
\* it or has written it) is in no outbound queue and in no replay, so that
\* no restart puts it on a successor.
C11_AtMostOnceOnTheWire ==
    \A l \in Lines :
        /\ Wired(l) <= 1
        /\ Wired(l) + Held(l) + Queued(l) + Count(Pending(th[1]), l) <= 1

\* A line put on the first process was replayed and written to the stdin of
\* its successor, and to no other.
C11_Witness ==
    /\ Count(putlog[1], Req(1)) = 1
    /\ Count(written[2], Req(1)) = 1
    /\ Count(written[1], Req(1)) = 0


\* C12: two threads whose queries exclude each other, and no child has
\* exited.  Every query that reached a process has returned the child's
\* answer to the request of the thread that made it, whichever thread made
\* the queries before it.
C12_SerializedCallersGetOwnResponse ==
    Exited = {} =>
        \A i \in Queries :
            hist[i].proc # 0 =>
                /\ hist[i].req # None
                /\ hist[i].kind = "ok"
                /\ hist[i].val.k = "resp" /\ hist[i].val.id = hist[i].req.id
                /\ \A j \in Queries :
                      (j # i /\ hist[j].proc # 0) => hist[j].val # hist[i].val

\* Two different threads have each made a query on the same running child
\* and each has got the answer to its own request.
C12_Witness ==
    /\ Exited = {}
    /\ \E i \in Queries, j \in Queries :
          /\ hist[i].t = 1 /\ hist[j].t = 2
          /\ hist[i].proc = 1 /\ hist[j].proc = 1
          /\ Returned(hist[i], Resp(hist[i].req))
          /\ Returned(hist[j], Resp(hist[j].req))


\* a is the beginning of b.
Prefix(a, b) == Len(a) <= Len(b) /\ SubSeq(b, 1, Len(a)) = a

\* C13: what has been written to stdin is a beginning of the lines put
\* before the first None, in the order of the puts, one item of the pipe for
\* each; once the writer worker has ended on the None (it has ended and the
\* child runs) all of them are written; and a writeline(None) that has
\* returned finds the worker ended.
C13_NoneClosesAfterEarlierLines ==
    /\ Prefix(written[1], LinesOf(putlog[1]))
    /\ (wthread[1] = "dead" /\ child[1] = "alive") =>
          /\ NonePos(putlog[1]) # 0
          /\ written[1] = LinesOf(putlog[1])
    /\ \A i \in 1..Len(hist) :
          (hist[i].op = "writeline" /\ hist[i].req = None /\ hist[i].kind = "ok")
              => wthread[1] = "dead"

\* Two lines and then None were put; both lines are written, in their order,
\* the worker has ended and the writeline(None) has returned.
C13_Witness ==
    /\ child[1] = "alive" /\ wthread[1] = "dead"
    /\ Len(written[1]) = 2
    /\ written[1] = LinesOf(putlog[1])
    /\ \E i \in 1..Len(hist) :
          hist[i].op = "writeline" /\ hist[i].req = None /\ hist[i].kind = "ok"


\* The texts of a sequence of lines.
TextOf(q) == [i \in 1..Len(q) |-> q[i].txt]

\* The place of the k-th newline of e; 0 for k = 0.
KthNL(e, k) ==
    IF k = 0 THEN 0
    ELSE CHOOSE i \in 1..Len(e) :
            e[i] = NL /\ Cardinality({j \in 1..i : e[j] = NL}) = k

NumNL(e) == Cardinality({i \in 1..Len(e) : e[i] = NL})

\* The lines of a stream of characters: what stands between two newlines,
\* and what stands after the last newline when that is not empty.
EmittedLines(e) ==
    LET whole == [k \in 1..NumNL(e) |->
                     SubSeq(e, KthNL(e, k - 1) + 1, KthNL(e, k) - 1)]
        rest == SubSeq(e, KthNL(e, NumNL(e)) + 1, Len(e))
    IN IF rest = <<>> THEN whole ELSE Append(whole, rest)

\* C14: nobody takes from the reader queues here, so that each holds what
\* its reader has delivered.  On either stream that is a beginning of the
\* lines the child printed, in their order, without their newlines, an empty
\* line as the empty text; None comes once and last, and then all lines are
\* delivered.  On stdout, where the child is cat, the lines delivered are a
\* beginning of the lines written to stdin, and all of them at the end.
C14_ReaderDeliversEmittedLines ==
    /\ \A s \in Streams :
          LET q == rqueue[1][s]
              got == TextOf(LinesOf(q))
          IN /\ NonePos(q) \in {0, Len(q)}
             /\ Prefix(got, EmittedLines(emitted[1][s]))
             /\ NonePos(q) # 0 => got = EmittedLines(emitted[1][s])
    /\ LET q == rqueue[1]["stdout"]
           got == TextOf(LinesOf(q))
       IN /\ Prefix(got, TextOf(written[1]))
          /\ NonePos(q) # 0 =>
                got = TextOf(written[1]) /\ written[1] = LinesOf(putlog[1])

\* The cat has echoed an empty line and the line "a", and the child printed
\* an empty line and an unfinished "a" on stderr; both readers have
\* delivered the two lines and None.
C14_Witness ==
    /\ rqueue[1]["stdout"] = <<Text(<<>>), Text(<<"a">>), None>>
    /\ written[1] = <<Text(<<>>), Text(<<"a">>)>>
    /\ emitted[1]["stderr"] = <<NL, "a">>
    /\ rqueue[1]["stderr"] = <<Text(<<>>), Text(<<"a">>), None>>

\* A readline with timeout 0, or with a finite timeout that has run out.
NoWait(t) == th[t].op = "readline" /\ ~th[t].block

\* The last call that ended.
LastDone(h) == h[Len(h)]

\* C15: a readline that does not block never waits: its next step can be
\* taken at once (after a None, the reader thread it joins is ending).  When
\* its get finds the queue empty and the reader thread running, the call
\* raises TimeoutError and leaves the queues, the reader threads and the
\* pipes as they were.  An item leaves a reader queue only from its head and
\* only into the readline that returns it, so that a line that arrives after
\* a timeout is there for a later readline.
C15_TimeoutRaisesAndKeepsQueue ==
    /\ [](\A t \in Threads :
             NoWait(t) =>
                /\ th[t].pc = "get_chk" => ENABLED GetChk(t)
                /\ th[t].pc = "get_take" => ENABLED GetTake(t)
                /\ th[t].pc = "get_join" =>
                      ENABLED GetJoin(t) \/ ENABLED ReaderExit(th[t].tgt, th[t].src))
    /\ [][\A t \in Threads :
             (/\ NoWait(t) /\ th[t].pc = "get_take" /\ th'[t] # th[t]
              /\ rqueue[1][th[t].src] = <<>>
              /\ rthread[1][th[t].src] = "run") =>
                 /\ hist' # hist
                 /\ LastDone(hist').t = t
                 /\ LastDone(hist').kind = "TimeoutError"
                 /\ UNCHANGED <<rqueue, rthread, rpipe>>]_vars
    /\ [][\A s \in Streams :
             rqueue'[1][s] # rqueue[1][s] =>
                \/ Prefix(rqueue[1][s], rqueue'[1][s])
                \/ /\ rqueue[1][s] # <<>>
                   /\ rqueue'[1][s] = Tail(rqueue[1][s])
                   /\ \E t \in Threads :
                         /\ th[t].pc = "get_take" /\ th[t].src = s
                         /\ IF Head(rqueue[1][s]) = None
                            THEN th'[t].pc = "get_join"
                            ELSE /\ hist' # hist
                                 /\ LastDone(hist').t = t
                                 /\ Returned(LastDone(hist'), Head(rqueue[1][s]))]_vars

\* A readline of stderr that did not block has raised TimeoutError; the
\* line came later, and a later readline of stderr by the same thread has
\* returned it.
C15_Witness ==
    \E i \in 1..Len(hist), j \in 1..Len(hist) :
        /\ i < j
        /\ hist[i].op = "readline" /\ hist[i].kind = "TimeoutError"
        /\ hist[j].op = "readline" /\ hist[j].src = hist[i].src
        /\ hist[j].t = hist[i].t
        /\ hist[j].kind = "ok" /\ hist[j].val # None

\* The steps the three worker threads of process p can take by themselves,
\* with the pipes as the child has left them.
ThreadSteps(p) ==
    \/ WriterGet(p)
    \/ WriterPut(p)
    \/ \E s \in Streams : ReaderRead(p, s) \/ ReaderExit(p, s)

\* C16: a query that has begun never waits for the child: in every state
\* its thread can take a step, or a worker thread of a process it refers to
\* can, so that the query ends or raises whatever the child does, and also
\* when the child does nothing more.
C16_NoOperationWaitsOnChild ==
    \A t \in Threads :
        th[t].pc # "idle" =>
            \/ ENABLED Query(t)
            \/ \E p \in Procs \cap Referenced : ENABLED ThreadSteps(p)

\* The lines of a text of communicate.
SplitNL(text) == SelectSeq(text, LAMBDA x : x # NLItem)

\* C17: a check never waits: its steps can be taken at once, or a reader
\* thread whose None it took is ending.  A check that found the child
\* running returned None.  A check that found it exited with status 0
\* returned a CompletedProcess, one that found it exited non-zero raised
\* CalledProcessError, and the stdout and stderr of either begin with the
\* lines the two reader queues held when the check was called, each ended by
\* a newline.
C17_CheckPollsAndCarriesQueuedLines ==
    /\ \A t \in Threads :
          th[t].op = "check" =>
             /\ th[t].pc = "chk" =>
                   ENABLED Chk(t) \/ ENABLED ReaderExit(1, "stdout")
             /\ th[t].pc = "chk_err" =>
                   ENABLED ChkErr(t) \/ ENABLED ReaderExit(1, "stderr")
    /\ \A i \in 1..Len(hist) :
          hist[i].op = "check" =>
             /\ hist[i].rc = "" => Returned(hist[i], None)
             /\ hist[i].rc = "exit0" => hist[i].kind = "ok"
             /\ hist[i].rc = "exitErr" => hist[i].kind = "CalledProcessError"
             /\ hist[i].rc # "" =>
                   /\ hist[i].val.k = "completed" /\ hist[i].val.rc = hist[i].rc
                   /\ Prefix(hist[i].snap["stdout"], SplitNL(hist[i].val.stdout))
                   /\ Prefix(hist[i].snap["stderr"], SplitNL(hist[i].val.stderr))
                   /\ \A s \in {hist[i].val.stdout, hist[i].val.stderr} :
                         Len(s) = 2 * Len(SplitNL(s))

\* A check has returned None on the running child; a later check has raised
\* CalledProcessError with an answer of the child on stdout and its error
\* line on stderr, both queued when that check began.
C17_Witness ==
    \E i \in 1..Len(hist), j \in 1..Len(hist) :
        /\ i < j
        /\ hist[i].op = "check" /\ Returned(hist[i], None) /\ hist[i].rc = ""
        /\ hist[j].op = "check" /\ hist[j].kind = "CalledProcessError"
        /\ hist[j].snap["stdout"] # <<>> /\ hist[j].snap["stderr"] = <<NotRepoLine>>
        /\ SplitNL(hist[j].val.stdout) = hist[j].snap["stdout"]
        /\ SplitNL(hist[j].val.stderr) = <<NotRepoLine>>

\* The calls that have put a line into the stdin queue, in their order.
Sent == SelectSeq(hist, LAMBDA h : h.op \in {"writejson", "writeline"}
                                      /\ h.enq /\ h.req # None)

\* The readjson calls that got something from the stdout queue, in their
\* order; the k-th got the k-th line sent, or the None of the end.
Got == SelectSeq(hist, LAMBDA h : h.op = "readjson"
                                     /\ h.kind \in {"ok", "JSONDecodeError"})

\* C18: a readjson that got the line null returned None, and so did one
\* that got the None of the end of the stream; one that got another line
\* returned the value json.loads has for it.
C18_NullLineAndNoneAreNoObject ==
    \A i \in 1..Len(Got) :
        IF i > Len(Sent) \/ (Sent[i].op = "writeline" /\ Sent[i].req = Text(NullChars))
        THEN Returned(Got[i], None)
        ELSE Got[i].val = Loads(Dumps(Sent[i].req))

\* The objects JSON has a value for: None, bool, int, str, a list of such
\* objects, a dict of such objects whose keys are str.
RECURSIVE JsonNative(_)
JsonNative(obj) ==
    \/ obj = None
    \/ obj.k \in {"int", "bool", "text"}
    \/ obj.k = "list" /\ \A i \in 1..Len(obj.v) : JsonNative(obj.v[i])
    \/ obj.k = "dict" /\ \A key \in DOMAIN obj.v :
                            key # None /\ key.k = "text" /\ JsonNative(obj.v[key])

\* Every call that has put into the stdin queue has put one item, and no
\* line of the queue holds a newline.
OneLineEach ==
    /\ Len(putlog[1]) = Cardinality({i \in 1..Len(hist) : hist[i].enq})
                           + Cardinality({t \in Threads : th[t].enq})
    /\ \A i \in 1..Len(putlog[1]) :
          putlog[1][i] # None =>
             \A j \in 1..Len(putlog[1][i].txt) : putlog[1][i].txt[j] # NL

C20_ExitReleasesChannel ==
    /\ \A i \in 1..Len(hist) :
          hist[i].op = "exit" =>
             /\ hist[i].kind \in {"ok", "Reraised"}
             /\ hist[i].enq => NonePos(putlog[1]) # 0
             /\ wthread[1] = "dead"
             /\ child[1] # "alive"
    /\ \A t \in Threads :
          (th[t].op = "exit" /\ th[t].pc \in {"close", "wait"}) =>
              /\ wthread[1] = "dead"
              /\ th[t].enq => NonePos(putlog[1]) # 0

\* An __exit__ with an exception has put the None and ended; an __exit__
\* that began when the writer thread had ended has put nothing and has
\* returned.
C20_Witness ==
    \E i \in 1..Len(hist), j \in 1..Len(hist) :
        /\ hist[i].op = "exit" /\ hist[i].enq /\ hist[i].kind = "Reraised"
        /\ hist[j].op = "exit" /\ hist[j].wdead /\ ~hist[j].enq
        /\ hist[j].kind = "ok"

\* The number of queries up to the i-th call that reached a process.
Served(i) == Cardinality({j \in Queries : j <= i /\ hist[j].proc # 0})

\* C21: one caller, a child that prints any line for a request.  Before the
\* first query no process has been started.  A query starts a process only
\* when it found no current process or the child of the current process
\* exited; a query that found the current child running has started none
\* and has used the current process.  While no child has exited there is one
\* process, and the i-th query that reached it has returned the i-th line
\* the child printed, as the child printed it.
C21_SpawnOnlyWhenNeeded ==
    /\ nq = 0 => nprocs = 0 /\ \A p \in Procs : child[p] = "none"
    /\ \A i \in Queries :
          /\ hist[i].np # 0 => (hist[i].oldcur = 0 \/ hist[i].deadAtStart)
          /\ (hist[i].oldcur # 0 /\ ~hist[i].deadAtStart) =>
                hist[i].np = 0 /\ hist[i].proc = hist[i].oldcur
          /\ (hist[i].oldcur = 0 \/ hist[i].deadAtStart) =>
                hist[i].np # 0 \/ hist[i].kind = "NotAGitRepoError"
    /\ th[1].np # 0 => (th[1].oldcur = 0 \/ th[1].deadAtStart)
    /\ Exited = {} =>
          /\ nprocs <= 1
          /\ \A i \in Queries :
                hist[i].proc # 0 =>
                   /\ Served(i) <= Len(emitted[1]["stdout"])
                   /\ Returned(hist[i], emitted[1]["stdout"][Served(i)])

\* Two queries on one running child: the first started it, the second used
\* it; the text of an error and an empty line came back as they were.
C21_Witness ==
    /\ Exited = {} /\ nprocs = 1 /\ Len(hist) = 2
    /\ hist[1].np = 1 /\ hist[2].np = 0 /\ hist[2].proc = 1
    /\ Returned(hist[1], NotRepoLine)
    /\ Returned(hist[2], Text(<<>>))

\* A query that ended without a process: it raised in the process property.
SpawnFailed(h) == h.op = "query" /\ h.proc = 0

ReadLinesDone(s) ==
    SelectSeq(hist, LAMBDA h : h.op = "readlines" /\ h.src = s)

\* The lines of the lists of a sequence of calls, one list after the other.
RECURSIVE Flat(_)
Flat(hs) == IF hs = <<>> THEN <<>> ELSE Head(hs).val.v \o Flat(Tail(hs))

\* The lines a readlines in progress holds.
InHand(s) == IF th[1].op = "readlines" /\ th[1].src = s THEN th[1].acc ELSE <<>>

\* q without its Nones.
NoNone(q) == SelectSeq(q, LAMBDA x : x # None)

\* The lines returned so far, those a call in progress holds and those still
\* queued or in the pipe, in this order.
Stream(s) ==
    Flat(ReadLinesDone(s)) \o InHand(s) \o NoNone(rqueue[1][s])
       \o NoNone(rpipe[1][s])

\* The answers to the lines written to the stdin of the child.
Answered == [i \in 1..Len(written[1]) |-> Resp(written[1][i])]

\* C23: one caller.  Every readlines returned a list, never an exception; the
\* list is no longer than count and holds no None.  The lines returned so
\* far, those a call in progress holds and those still queued or in the pipe
\* are, in this order, the lines the child printed (on stdout the answers to
\* the lines it has read, on stderr nothing): a call takes from
\* the queue the lines it returns and nothing else but a None.  A call returns
\* fewer than count lines only from a get that found the queue empty or the
\* reader ended, or that took the None.
C23_ReadLinesTakesAtMostCount ==
    /\ [](\A i \in 1..Len(hist) :
             hist[i].op = "readlines" =>
                /\ hist[i].kind = "ok"
                /\ hist[i].val.k = "list"
                /\ hist[i].count # None => Len(hist[i].val.v) <= hist[i].count.v
                /\ \A j \in 1..Len(hist[i].val.v) : hist[i].val.v[j] # None)
    /\ [](/\ Prefix(Stream("stdout"), Answered)
          /\ child[1] = "alive" =>
                Len(Stream("stdout")) = Len(written[1]) - Len(inpipe[1])
          /\ Stream("stderr") = <<>>)
    /\ [][(hist' # hist /\ LastDone(hist').op = "readlines"
           /\ ~CountReached(LastDone(hist').val.v, LastDone(hist').count)) =>
             \/ th[1].pc = "get_join"
             \/ th[1].pc \in {"get_chk", "get_take"}
                /\ rqueue[1][th[1].src] = <<>>]_vars

\* A readlines with count 1 returned the first answer while the second was
\* queued behind it.
C23_Witness ==
    /\ Len(hist) > 0
    /\ LastDone(hist).op = "readlines"
    /\ LastDone(hist).count = PyInt(1)
    /\ LastDone(hist).val = ListOf(<<Resp(Req(1))>>)
    /\ rqueue[1]["stdout"] = <<Resp(Req(2))>>
    /\ th[1].pc = "idle"

\* The text Popen.communicate() returns for the lines of a stream: all of
\* them, each with its newline.
PopenText(lines) == JoinNL(lines)

\* C24: no step of a communicate changes the child, the stdin queue or the
\* writer worker; and once the child has exited, the pair the first
\* communicate returned is the pair of Popen.communicate(): every line the
\* child printed on stdout and on stderr, in order, each with its newline.
C24_CommunicateMatchesPopen ==
    /\ [][th' # th => UNCHANGED <<child, inpipe, qin, wthread, whold, putlog>>]_vars
    /\ []((Len(hist) > 0 /\ hist[1].op = "communicate" /\ child[1] # "alive") =>
             hist[1].val = Pair(PopenText(emitted[1]["stdout"]),
                                PopenText(emitted[1]["stderr"])))

\* The calls of a runner that have ended.
Runs(op) == {i \in 1..Len(hist) : hist[i].op = op}

\* C25: a ProcessRunner call returns a CompletedProcess exactly when the
\* program and the working directory are there and the exit code is 0; the
\* child ran the prefix followed by the arguments of the call, in the working
\* directory, and the result carries its stdout and stderr.  A non-zero exit
\* raises CalledProcessError with the stdout and stderr of the child, a
\* missing program or working directory FileNotFoundError.
C25_RunnerReturnsOrRaises ==
    \A i \in Runs("ProcessRunner") :
        LET w == hist[i].req.world
            v == hist[i].val
        IN
        /\ v.k = "CompletedProcess" <=> (w.found = "ok" /\ w.rc = 0)
        /\ w.found = "ok" =>
              /\ v.k = IF w.rc = 0 THEN "CompletedProcess" ELSE "CalledProcessError"
              /\ (IF w.rc = 0 THEN v.args ELSE v.cmd) = hist[i].req.args
              /\ v.cwd = "dir"
              /\ v.returncode = w.rc
              /\ v.stdout = w.stdout /\ v.stderr = w.stderr
        /\ w.found # "ok" => v.k = "FileNotFoundError"
        /\ hist[i].kind = (IF v.k = "CompletedProcess" THEN "ok" ELSE v.k)

\* git status in a directory that is no repository: CalledProcessError with
\* the stdout and the stderr of the child.
C25_Witness ==
    \E i \in Runs("ProcessRunner") :
        /\ hist[i].kind = "CalledProcessError"
        /\ hist[i].req.args = <<Arg("git"), Arg("status")>>
        /\ hist[i].val.stdout = <<"out">>
        /\ hist[i].val.stderr = <<"fatal">>

\* The failure is one of the two of a directory that is missing or is no
\* repository.
NoRepo(w) ==
    \/ w.found = "nocwd"
    \/ w.found = "ok" /\ w.rc # 0 /\ Contains(<<NotInRepoMsg>>, w.stderr)

\* C26: a GitAnnexRunner call raises NotAGitRepoError exactly when the
\* working directory is missing or the child exited non-zero with the
\* not-in-a-git-repository message on stderr; in every other case it ends as
\* subprocess.run does, with its exception or its result.  init_annex raises
\* NotAGitRepoError for a directory that is missing or is no repository.
C26_NotAGitRepoExactly ==
    /\ \A i \in Runs("GitAnnexRunner") :
          LET w == hist[i].req.world IN
          /\ hist[i].kind = "NotAGitRepoError" <=> NoRepo(w)
          /\ ~NoRepo(w) => hist[i].val = SubprocessRun(hist[i].req.args, "dir", w)
    /\ \A i \in Runs("init_annex") :
          NoRepo(hist[i].req.world) => hist[i].kind = "NotAGitRepoError"

\* The child exited non-zero with the message about --version and without
\* the one about the repository.
BadVersion(w) ==
    /\ w.found = "ok" /\ w.rc # 0
    /\ Contains(<<VersionMsg>>, w.stderr)
    /\ ~Contains(<<NotInRepoMsg>>, w.stderr)

\* C27: git-annex init, through GitAnnexInitRunner or init_annex, raises
\* ValueError when the child exited non-zero with 'option --version:' on
\* stderr, and NotAGitRepoError, not ValueError, when the stderr holds the
\* not-in-a-git-repository message as well; any other non-zero exit raises
\* the CalledProcessError of subprocess.run; and init_annex returns a
\* GitAnnexRepo only when the command succeeded.
C27_InvalidVersionIsValueError ==
    \A i \in Runs("GitAnnexInitRunner") \cup Runs("init_annex") :
        LET w == hist[i].req.world IN
        /\ BadVersion(w) => hist[i].kind = "ValueError"
        /\ (w.found = "ok" /\ w.rc # 0 /\ Contains(<<NotInRepoMsg>>, w.stderr)) =>
              hist[i].kind = "NotAGitRepoError"
        /\ (w.found = "ok" /\ w.rc # 0 /\ ~BadVersion(w) /\ ~NoRepo(w)) =>
              hist[i].val = SubprocessRun(hist[i].req.args, "dir", w)
        /\ hist[i].val.k = "GitAnnexRepo" => (w.found = "ok" /\ w.rc = 0)

\* A dict after the items of new are assigned to it.  A plain dict keeps an
\* item whose value is the empty set; the other kind drops it.
Assigned(d, new, plain) ==
    LET dropped == IF plain THEN {} ELSE {f \in DOMAIN new : new[f] = {}} IN
    [f \in (DOMAIN d \cup DOMAIN new) \ dropped |->
        IF f \in DOMAIN new THEN new[f] ELSE d[f]]

\* d without the field f.
Without(d, f) == [g \in DOMAIN d \ {f} |-> d[g]]

\* The dict of sets that the first k calls make of an empty one.
RECURSIVE Ideal(_, _)
Ideal(k, plain) ==
    IF k = 0 THEN EmptyDict
    ELSE LET d == Ideal(k - 1, plain)
             h == hist[k]
         IN
         CASE h.op = "setitem" ->
                 Assigned(d, [f \in {h.req.field} |-> h.req.value.v], plain)
           [] h.op = "delitem" -> Without(d, h.req.field)
           [] h.op = "update" ->
                 Assigned(d, [f \in DOMAIN h.req.value.v |-> h.req.value.v[f].v],
                          plain)
           [] h.op = "clear" -> EmptyDict
           [] OTHER -> d

\* Every lookup, membership test and iteration gives what the dict of the
\* calls before it gives, for the fields that are not internal.
MappingLaws(plain) ==
    \A j \in 1..Len(hist) :
        LET d == Ideal(j - 1, plain)
            h == hist[j]
            f == h.req.field
        IN
        /\ (h.op = "getitem" /\ ~Internal(f)) =>
              h.val.result = IF f \in DOMAIN d THEN PySet(d[f]) ELSE KeyError
        /\ (h.op = "contains" /\ ~Internal(f)) =>
              h.val.result = PyBool(f \in DOMAIN d)
        /\ h.op = "iter" => ListToSet(h.val.result.v) = DOMAIN d

\* C28 as stated: the object is a dict of sets.  After metadata[f] = S the
\* lookup of f gives S, the last assignment of a sequence; after del
\* metadata[f] f is not in it; after update every given field has its set;
\* after clear the iteration yields nothing.
C28_MappingLaws == MappingLaws(TRUE)

\* C28, amended: the same for a dict of sets in which the assignment of the
\* empty set to a field, by metadata[f] = set() or by update, removes the
\* field.
C28_MappingLawsNonEmpty == MappingLaws(FALSE)

\* Two assignments to a field and the lookup of it: the second set.
C28_Witness ==
    /\ Len(hist) = 3
    /\ hist[1].op = "setitem" /\ hist[1].req = MetaInput(<<"file">>, PySet({"a", "b"}))
    /\ hist[2].op = "setitem" /\ hist[2].req = MetaInput(<<"file">>, PySet({"a"}))
    /\ hist[3].op = "getitem" /\ hist[3].req.field = <<"file">>
    /\ hist[3].val.result = PySet({"a"})

\* How often x is in the sequence l.
Times(l, x) == Cardinality({i \in 1..Len(l) : l[i] = x})

\* C29: an iteration yields no field that is 'lastchanged' or ends in
\* '-lastchanged', and every other field of the cache once; the length is the
\* number of the fields yielded; the lookup and the membership test of a
\* field of the cache, internal or not, find it.
C29_InternalFieldsSkipped ==
    \A j \in 1..Len(hist) :
        LET h == hist[j]
            cache == h.val.state.cache.v
        IN
        /\ h.op = "iter" =>
              \A f \in DOMAIN cache \cup ListToSet(h.val.result.v) :
                  Times(h.val.result.v, f)
                     = IF f = LastChanged \/ f[Len(f)] = "-lastchanged" \/ f \notin DOMAIN cache
                       THEN 0 ELSE 1
        /\ h.op = "len" =>
              h.val.result =
                 PyInt(Cardinality({f \in DOMAIN cache :
                                       f # LastChanged /\ f[Len(f)] # "-lastchanged"}))
        /\ (h.op = "getitem" /\ h.req.field \in DOMAIN cache) =>
              h.val.result = PySet(ListToSet(cache[h.req.field]))
        /\ (h.op = "contains" /\ h.req.field \in DOMAIN cache) =>
              h.val.result = PyBool(TRUE)

\* After an assignment the cache holds the field and two internal ones; the
\* iteration yields the field alone, and 'lastchanged' is in the mapping.
C29_Witness ==
    /\ Len(hist) = 3
    /\ hist[1].op = "setitem" /\ hist[1].req = MetaInput(<<"file">>, PySet({"a"}))
    /\ hist[2].op = "iter" /\ hist[2].val.result = PyList(<<<<"file">>>>)
    /\ DOMAIN hist[2].val.state.cache.v
          = {<<"file">>, <<"file", "-lastchanged">>, LastChanged}
    /\ hist[3].op = "contains" /\ hist[3].req.field = LastChanged
    /\ hist[3].val.result = PyBool(TRUE)

\* C30: one caller.  When the restart of a query has put lines of the old
\* queue on the new process, that query and every later query on the same
\* process that returns a line returns the answer to its own request.
C30_ReplayKeepsAlignment ==
    \A i \in Queries :
        hist[i].replayed # <<>> =>
           \A j \in Queries :
               (j >= i /\ hist[j].proc = hist[i].proc /\ hist[j].kind = "ok"
                  /\ hist[j].val # None) =>
                  hist[j].val = Resp(hist[j].req)

\* b is what is left of a after items were taken from its front.
IsSuffix(b, a) ==
    Len(b) <= Len(a) /\ b = SubSeq(a, Len(a) - Len(b) + 1, Len(a))

\* One step of the reader worker of stream s of p, seen from outside: while
\* it runs it adds lines only; it stops by adding one None; once stopped it
\* adds nothing and never runs again.
ReaderFinal(p, s) ==
    LET q == rqueue[p][s]
        q2 == rqueue'[p][s]
        a == rthread[p][s]
        b == rthread'[p][s] IN
    /\ (a = "run" /\ b = "run") =>
          \/ IsSuffix(q2, q)
          \/ \E x \in Range(q2) : x # None /\ q2 = Append(q, x)
    /\ (a = "run" /\ b # "run") => (b = "closing" /\ q2 = Append(q, None))
    /\ (a # "run") => (b # "run" /\ IsSuffix(q2, q))
    /\ (a = "dead") => (b = "dead")

\* One step of the writer worker of p: it stops only with the None it took
\* or with a line it could not print, and never runs again.
WriterFinal(p) ==
    /\ (wthread[p] # "dead" /\ wthread'[p] = "dead") =>
          (wthread[p] = "hold" /\ (whold[p] = None \/ child[p] # "alive"))
    /\ (wthread[p] = "dead") => (wthread'[p] = "dead" /\ written'[p] = written[p])

\* C31: a reader worker ends, at end of file or on a closed stream, by
\* putting exactly one None, after which it puts nothing; a writer worker
\* ends on the None it took or on a failed print; no ended worker runs again.
C31_WorkerTerminationFinal ==
    /\ [][\A p \in Procs : WriterFinal(p) /\ \A s \in Streams : ReaderFinal(p, s)]_vars
    /\ [](\A p \in Procs : \A s \in Streams :
             (rthread[p][s] = "run" => None \notin Range(rqueue[p][s]))
             /\ (rthread[p][s] # "run" =>
                    /\ rqueue[p][s] # <<>>
                    /\ rqueue[p][s][Len(rqueue[p][s])] = None
                    /\ \A i \in 1..(Len(rqueue[p][s]) - 1) : rqueue[p][s][i] # None))

\* The stdout was closed under a running reader, which put its None and
\* ended; the writer ended on the None of __exit__.
C31_Witness ==
    /\ Closed(1)
    /\ child[1] = "alive"
    /\ rthread[1]["stdout"] = "dead"
    /\ rqueue[1]["stdout"] = <<None>>
    /\ wthread[1] = "dead"

\* The values the first n calls returned from readline on stream s, in order.
ReadSoFar(s, n) ==
    LET vals == [i \in 1..n |-> IF hist[i].op = "readline" /\ hist[i].src = s
                                     /\ hist[i].kind = "ok"
                                  THEN <<hist[i].val>> ELSE <<>>]
        cat[i \in 0..n] == IF i = 0 THEN <<>> ELSE cat[i - 1] \o vals[i]
    IN cat[n]

\* C32: one caller.  A readline raises BrokenPipeError only in a step that
\* finds the reader ended and the queue empty.  The lines returned so far,
\* those queued and those in the pipe are, in this order, the lines the child
\* printed; and when a readline raised BrokenPipeError, the readlines before
\* it had returned every line the child printed, in order, and the None.
C32_QueuedLinesBeforeBrokenPipe ==
    /\ [][(hist' # hist /\ LastDone(hist').kind = "BrokenPipeError") =>
             /\ rthread[1][th[1].src] = "dead"
             /\ rqueue[1][th[1].src] = <<>>]_vars
    /\ [](\A s \in Streams :
             /\ NoNone(ReadSoFar(s, Len(hist))) \o NoNone(rqueue[1][s])
                   \o rpipe[1][s] = emitted[1][s]
             /\ \A i \in 1..Len(hist) :
                   (hist[i].kind = "BrokenPipeError" /\ hist[i].src = s) =>
                      ReadSoFar(s, i - 1) = Append(emitted[1][s], None))

\* The reader of stdout had ended with a line and the None in its queue; the
\* readlines returned the line, then None, then raised BrokenPipeError.
C32_Witness ==
    /\ Len(hist) = 3
    /\ \A i \in 1..3 : hist[i].src = "stdout"
    /\ Returned(hist[1], Resp(Req(1)))
    /\ Returned(hist[2], None)
    /\ hist[3].kind = "BrokenPipeError"
    /\ emitted[1]["stdout"] = <<Resp(Req(1))>>

\* C33: one caller.  A query with a request line whose readline returned
\* None (the stdout of its child was closed) and whose check found the
\* child exited with status 0 returns None and raises nothing; it has put
\* None as the last item on the stdin queue of that child; and the query
\* after it starts a new process.
C33_CleanExitReturnsNone ==
    \A i \in Queries :
        (hist[i].ctx = "final" /\ hist[i].rc = "exit0" /\ hist[i].req # None
           /\ hist[i].out = None) =>
            /\ Returned(hist[i], None)
            /\ putlog[hist[i].proc] # <<>>
            /\ putlog[hist[i].proc][Len(putlog[hist[i].proc])] = None
            /\ \A j \in Queries :
                  (hist[j].nh = i /\ hist[j].proc # 0) =>
                     (hist[j].deadAtStart /\ hist[j].proc # hist[i].proc)

\* C34: in a restart, the readlines on the outbound queue of the old process
\* ends at the first None it takes and leaves what is behind it in the old
\* queue; the lines it hands to the successor hold no None; and when the
\* request of the restarting query is put on the queue of the successor, the
\* writer worker of the successor has not ended and no None is in that queue.
C34_DrainStopsAtNone ==
    /\ [][\A t \in Threads :
             (/\ th[t].pc = "drain" /\ th'[t] # th[t]
              /\ qin[th[t].dp] # <<>> /\ Head(qin[th[t].dp]) = None) =>
                 /\ th'[t].pc # "drain"
                 /\ th'[t].acc = th[t].acc
                 /\ qin'[th[t].dp] = Tail(qin[th[t].dp])]_vars
    /\ [](\A t \in Threads :
             th[t].ctx = "replay" =>
                (th[t].item # None /\ None \notin Range(th[t].acc)))
    /\ [][\A t \in Threads :
             (/\ th[t].pc = "put_enq" /\ th[t].ctx = "req" /\ th[t].dp # 0
              /\ th'[t] # th[t]) =>
                 /\ wthread[th[t].tgt] # "dead"
                 /\ None \notin Range(putlog[th[t].tgt])]_vars

\* A call is between self._dead_process = self._process and self._process =
\* new_process.
Swapping == \E t \in Threads : th[t].pc = "install_cur" /\ th[t].dp # 0

\* C35: callers that exclude each other.  _dead_process changes only in a
\* restart, to the process that is current at that moment, whose child has
\* exited, and the next assignment makes the new process the current one;
\* _process changes only from None or from the process that _dead_process
\* has just been set to.  Outside those two assignments _dead_process is
\* None or a process other than the current one, and its child has exited.
C35_DeadProcessIsPredecessor ==
    /\ [][dead' # dead =>
             /\ cur # 0 /\ dead' = cur /\ child[cur] # "alive"
             /\ \E t \in Threads :
                   /\ th[t].pc = "install_dead" /\ th[t].np # cur
                   /\ th'[t].pc = "install_cur"]_vars
    /\ [][cur' # cur =>
             /\ dead' = dead
             /\ IF cur = 0 THEN dead = 0 ELSE dead = cur
             /\ \E t \in Threads : th[t].pc = "install_cur" /\ cur' = th[t].np]_vars
    /\ [](dead # 0 => child[dead] # "alive")
    /\ [](~Swapping => (dead = 0 \/ dead # cur))
    /\ [](cur = 0 => dead = 0)

\* A query found the child of the current process exited and started a
\* successor, which answered it; _dead_process is the process it found.
C35_Witness ==
    /\ \A t \in Threads : th[t].pc = "idle"
    /\ \E i \in Queries :
          /\ hist[i].deadAtStart
          /\ Returned(hist[i], Resp(hist[i].req))
          /\ dead = hist[i].oldcur
          /\ cur = hist[i].np
    /\ dead # 0 /\ dead # cur

\* The lines of stream s that a completed call handed to its caller.
SurfacedBy(h, s) ==
    IF h.op = "readline" /\ h.src = s /\ h.kind = "ok" /\ h.val # None
    THEN <<h.val>>
    ELSE IF h.op = "readlines" /\ h.src = s THEN h.val.v
    ELSE IF h.op = "check" /\ h.rc # ""
    THEN SplitNL(IF s = "stdout" THEN h.val.stdout ELSE h.val.stderr)
    ELSE <<>>

\* The lines of stream s handed out by the first n calls, in order.
Surfaced(s, n) ==
    LET cat[i \in 0..n] ==
            IF i = 0 THEN <<>> ELSE cat[i - 1] \o SurfacedBy(hist[i], s)
    IN cat[n]

\* The lines of stream s a call in progress has taken.
Taken(s) ==
    IF th[1].op = "readlines" /\ th[1].src = s THEN th[1].acc
    ELSE IF th[1].op = "check" /\ th[1].pc = "chk_err" /\ s = "stdout"
    THEN th[1].capout
    ELSE <<>>

\* C36: one caller; the lines a child prints are distinct.  The lines handed
\* out by readline, readlines and check (in its result or its
\* CalledProcessError), those a call in progress has taken, those queued and
\* those in the pipe are, in this order, the lines the child printed: no line
\* is handed out twice, and two checks report no line in common.  A check
\* that finds the child running returns None and changes no queue.
C36_LinesSurfaceOnce ==
    /\ [](\A s \in Streams :
             Surfaced(s, Len(hist)) \o Taken(s) \o NoNone(rqueue[1][s])
                \o rpipe[1][s] = emitted[1][s])
    /\ [](\A i \in 1..Len(hist), j \in 1..Len(hist), s \in Streams :
             (i < j /\ hist[i].op = "check" /\ hist[j].op = "check") =>
                Range(SurfacedBy(hist[i], s)) \cap Range(SurfacedBy(hist[j], s)) = {})
    /\ [][(th[1].op = "check" /\ th[1].pc = "chk" /\ th'[1] # th[1]
             /\ child[1] = "alive") =>
             /\ UNCHANGED <<rqueue, qin, rpipe>>
             /\ hist' # hist
             /\ Returned(LastDone(hist'), None)]_vars

\* The child printed a line and exited; the first check reported the line
\* and the second check reported no line.
C36_Witness ==
    /\ Len(hist) = 2
    /\ hist[1].op = "check" /\ hist[2].op = "check"
    /\ hist[1].rc # "" /\ hist[2].rc # ""
    /\ SplitNL(hist[1].val.stdout) = <<Resp(Req(1))>>
    /\ hist[2].val.stdout = <<>> /\ hist[2].val.stderr = <<>>
    /\ emitted[1]["stdout"] = <<Resp(Req(1))>>

\* The object before the i-th call (i = 1..Len(hist) + 1).
MetaBefore(i) == IF i = 1 THEN NewMetadata ELSE hist[i - 1].val.state

\* The i-th call is one that gives a non-empty dict of fields to _metadata.
WritesFields(i) ==
    LET h == hist[i] IN
    /\ h.kind = "ok"
    /\ \/ h.op \in {"setitem", "delitem"}
       \/ h.op = "update" /\ DOMAIN h.req.value.v # {}
       \/ h.op = "clear" /\ Iter(MetaBefore(i)).result.v # <<>>

\* C37: the object asks git-annex without fields at most once, and only while
\* it has no cache; a lookup, a membership test, an iteration or a len asks
\* with no fields.  A call that gives a non-empty dict of fields asks with
\* fields exactly once, and no other call does.  After every call the cache
\* is the fields of the last answer, which after a call with fields is the
\* metadata as that call left it.  After metadata[f] = S the metadata and the
\* cache hold S for f (no f when S is empty), whatever another program had
\* set for f.
C37_CacheIsLastResponse ==
    \A i \in 1..Len(hist) :
        LET h == hist[i]
            a == MetaBefore(i)
            b == h.val.state
        IN
        /\ b.reads <= 1
        /\ b.reads > a.reads => (a.cache = None /\ a.reads = 0 /\ a.writes = 0)
        /\ h.op \in {"getitem", "contains", "iter", "len"} => b.writes = a.writes
        /\ b.writes = a.writes + (IF WritesFields(i) THEN 1 ELSE 0)
        /\ h.op # "external" => b.cache = b.resp
        /\ h.op = "external" => (b.cache = a.cache /\ b.resp = a.resp)
        /\ WritesFields(i) => b.cache = PyDict(b.store)
        /\ (h.op = "setitem" /\ h.kind = "ok") =>
              IF h.req.value.v = {}
              THEN h.req.field \notin DOMAIN b.store
                   /\ h.req.field \notin DOMAIN b.cache.v
              ELSE /\ ListToSet(b.store[h.req.field]) = h.req.value.v
                   /\ ListToSet(b.cache.v[h.req.field]) = h.req.value.v

\* Another program set 'file' after the object had read the metadata; the
\* lookup still gave the cache, without asking; the assignment then asked
\* once and the metadata holds the assigned set.
C37_Witness ==
    /\ Len(hist) = 3
    /\ hist[1].op = "iter" /\ hist[1].val.state.reads = 1
    /\ hist[2].op = "external" /\ hist[2].req.value.v[<<"file">>] = <<"x">>
    /\ hist[3].op = "setitem" /\ hist[3].req = MetaInput(<<"file">>, PySet({"a"}))
    /\ hist[3].val.state.reads = 1 /\ hist[3].val.state.writes = 1
    /\ ListToSet(hist[3].val.state.store[<<"file">>]) = {"a"}

\* The i-th call was given a value that is not a set.
GivenNonSet(i) ==
    LET h == hist[i] IN
    \/ h.op = "setitem" /\ h.req.value.k # "set"
    \/ h.op = "update" /\ \E f \in DOMAIN h.req.value.v : h.req.value.v[f].k # "set"

\* C38: metadata[f] = v with a v that is not a set, and update() with a value
\* that is not a set, raise TypeError; the object has asked git-annex nothing
\* in the call, and its cache and the metadata of the key are as before.
C38_NonSetRaisesTypeError ==
    \A i \in 1..Len(hist) :
        GivenNonSet(i) =>
            /\ hist[i].kind = "TypeError"
            /\ hist[i].val.state = MetaBefore(i)

\* After an assignment, an update with a set for one field and a list for
\* another raised TypeError and left the assigned set in place.
C38_Witness ==
    /\ Len(hist) = 3
    /\ hist[1].op = "setitem" /\ hist[1].req = MetaInput(<<"key">>, PySet({"a", "b"}))
    /\ hist[2].op = "update" /\ hist[2].kind = "TypeError"
    /\ hist[2].req.value.v[<<"file">>] = PySet({"a"})
    /\ hist[2].req.value.v[<<"key">>] = PyList(<<"a">>)
    /\ hist[3].op = "getitem" /\ hist[3].req.field = <<"key">>
    /\ hist[3].val.result = PySet({"a", "b"})
    /\ hist[3].val.state.writes = 1

\* The legacy object before the i-th call.
LegacyBefore(i) == IF i = 1 THEN NewGitAnnexMetadata ELSE hist[i - 1].val.state

\* The values the cache holds for a field.
CachedValues(m, f) ==
    IF m.cache # None /\ f \in DOMAIN m.cache.v THEN ListToSet(m.cache.v[f]) ELSE {}

\* C39: a fields() with a field to set sends one request, or two with one
\* restart between them, the second exactly when the first answer did not
\* hold the requested values.  It returns with a cache in which the field has
\* the requested values, or raises KeyError with the cache None after two
\* requests.  A lookup right after an assignment that returned gives the
\* values assigned.
C39_LegacyRetryOnMismatch ==
    \A i \in 1..Len(hist) :
        LET h == hist[i]
            a == LegacyBefore(i)
            b == h.val.state
            first == BatchProcessCall(a, [f \in {h.req.field} |-> h.req.value],
                                      h.req.w1).answer
            bad == Mismatch(first, [f \in {h.req.field} |-> h.req.value])
        IN
        /\ h.op = "legacy_set" =>
              /\ b.sent - a.sent = (IF bad THEN 2 ELSE 1)
              /\ b.restarts - a.restarts = (IF bad THEN 1 ELSE 0)
              /\ h.kind \in {"ok", "KeyError"}
              /\ h.kind = "ok" =>
                    /\ b.cache # None
                    /\ CachedValues(b, h.req.field) = ListToSet(h.req.value)
              /\ h.kind = "KeyError" => (b.cache = None /\ bad)
        /\ (h.op = "legacy_get" /\ i > 1 /\ hist[i - 1].op = "legacy_set"
              /\ hist[i - 1].kind = "ok") =>
              /\ h.kind = "ok"
              /\ ListToSet(h.val.result.v) = ListToSet(hist[i - 1].req.value)

\* The first answer to an assignment held the old value; the process was
\* restarted, the second answer held the new value, and the lookup gave it.
C39_Witness ==
    /\ Len(hist) = 3
    /\ hist[1].op = "legacy_set" /\ hist[1].req.value = <<"a">>
    /\ hist[2].op = "legacy_set" /\ hist[2].req.value = <<"b">>
    /\ hist[2].req.w1 = "stale" /\ hist[2].kind = "ok"
    /\ hist[2].val.state.sent - hist[1].val.state.sent = 2
    /\ hist[2].val.state.restarts - hist[1].val.state.restarts = 1
    /\ hist[3].op = "legacy_get" /\ hist[3].val.result = PyList(<<"b">>)

====
